---- MODULE Spec2Model ----
(***************************************************************************)
(* RideWise Flask backend (src/backend/app.py): the prediction endpoints   *)
(* /predict/day, /predict/hour, /predict/upload, /upload-predict, the      *)
(* history query /predictions/history and the in-memory stores             *)
(* prediction_history and last_prediction.                                 *)
(*                                                                         *)
(* Numbers that Python holds as floats are kept in fixed point, in         *)
(* thousandths: the Python value 28.5 is the integer 28500.  Python        *)
(* strings are sequences of one-character strings, so that strip(), int()  *)
(* and float() are computed character by character.                        *)
(***************************************************************************)
EXTENDS Integers, Sequences, FiniteSets, TLC

(***************************************************************************)
(* Python / JSON values                                                    *)
(***************************************************************************)
None == [k |-> "none", n |-> 0, s |-> <<>>]
NaN == [k |-> "nan", n |-> 0, s |-> <<>>]
Num(n) == [k |-> "num", n |-> n, s |-> <<>>]
Str(s) == [k |-> "str", n |-> 0, s |-> s]

\* an integer as a fixed-point number
I(i) == Num(i * 1000)

\* int(): truncation toward zero of a fixed-point number
Trunc(n) == IF n < 0 THEN -((-n) \div 1000) ELSE n \div 1000
Min(a, b) == IF a < b THEN a ELSE b

\* dict.get(k): the value, or None when the key is absent
Get(d, key) == IF key \in DOMAIN d THEN d[key] ELSE None

(***************************************************************************)
(* str.strip(), int(str), float(str)                                       *)
(***************************************************************************)
IsSpace(c) == c \in {" ", "\t", "\n", "\r"}

RECURSIVE LStrip(_)
LStrip(s) == IF s = <<>> THEN s
             ELSE IF IsSpace(Head(s)) THEN LStrip(Tail(s)) ELSE s

RECURSIVE RStrip(_)
RStrip(s) == IF s = <<>> THEN s
             ELSE IF IsSpace(s[Len(s)]) THEN RStrip(SubSeq(s, 1, Len(s) - 1)) ELSE s

Strip(s) == RStrip(LStrip(s))

DigitChars == {"0", "1", "2", "3", "4", "5", "6", "7", "8", "9"}

DigitOf(c) == CASE c = "0" -> 0 [] c = "1" -> 1 [] c = "2" -> 2 [] c = "3" -> 3
                [] c = "4" -> 4 [] c = "5" -> 5 [] c = "6" -> 6 [] c = "7" -> 7
                [] c = "8" -> 8 [] c = "9" -> 9

AllDigits(s) == s # <<>> /\ \A i \in 1..Len(s) : s[i] \in DigitChars

RECURSIVE DigitsVal(_)
DigitsVal(s) == IF s = <<>> THEN 0
                ELSE DigitsVal(SubSeq(s, 1, Len(s) - 1)) * 10 + DigitOf(s[Len(s)])

\* position of the first occurrence of character c in s, 0 when there is none
RECURSIVE Find(_, _, _)
Find(s, c, i) == IF i > Len(s) THEN 0
                 ELSE IF s[i] = c THEN i ELSE Find(s, c, i + 1)

Unsigned(s) == IF s # <<>> /\ Head(s) \in {"+", "-"} THEN Tail(s) ELSE s
SignOf(s) == IF s # <<>> /\ Head(s) = "-" THEN -1 ELSE 1

Parsed(n) == [ok |-> TRUE, n |-> n]
NotParsed == [ok |-> FALSE, n |-> 0]

\* a signed run of decimal digits
SignedDigits(t) ==
    IF AllDigits(Unsigned(t)) THEN Parsed(SignOf(t) * DigitsVal(Unsigned(t)))
    ELSE NotParsed

\* int("..."): surrounding whitespace, an optional sign, decimal digits
IntOfStr(s) == SignedDigits(Strip(s))

\* the fraction digits of a decimal literal, in thousandths (digits beyond
\* the third are below the fixed-point resolution)
FracVal(f) == DigitsVal(SubSeq(f \o <<"0", "0", "0">>, 1, 3))

\* a decimal literal of integer digits ip and fraction digits fp
Decimal(sign, ip, fp) ==
    IF /\ ip = <<>> \/ AllDigits(ip)
       /\ fp = <<>> \/ AllDigits(fp)
       /\ ip # <<>> \/ fp # <<>>
    THEN Parsed(sign * (DigitsVal(ip) * 1000 + FracVal(fp)))
    ELSE NotParsed

\* the digits u split at the decimal point found at position p (0: none)
SplitDecimal(sign, u, p) ==
    IF p = 0 THEN Decimal(sign, u, <<>>)
    ELSE Decimal(sign, SubSeq(u, 1, p - 1), SubSeq(u, p + 1, Len(u)))

SignedDecimal(sign, u) == SplitDecimal(sign, u, Find(u, ".", 1))

StrippedFloat(t) == SignedDecimal(SignOf(t), Unsigned(t))

\* float("..."): surrounding whitespace, an optional sign, digits with an
\* optional fraction; the result in thousandths
FloatOfStr(s) == StrippedFloat(Strip(s))

\* int(v) of a Python value: raises (ok = FALSE) on a non-integer string;
\* the result is a plain integer
PyInt(v) ==
    CASE v.k = "num" -> [ok |-> TRUE, n |-> Trunc(v.n)]
      [] v.k = "str" -> IntOfStr(v.s)
      [] OTHER -> [ok |-> FALSE, n |-> 0]

NumOrNaN(r) == IF r.ok THEN Num(r.n) ELSE NaN
FloatResult(r) == [ok |-> r.ok, v |-> NumOrNaN(r)]

\* float(v) of a Python value: raises (ok = FALSE) on a non-numeric string;
\* float(nan) is nan
PyFloat(v) ==
    CASE v.k = "num" -> [ok |-> TRUE, v |-> v]
      [] v.k = "nan" -> [ok |-> TRUE, v |-> NaN]
      [] v.k = "str" -> FloatResult(FloatOfStr(v.s))
      [] OTHER -> [ok |-> FALSE, v |-> NaN]

\* pd.to_numeric(col, errors='coerce') on a one-row column: NaN where the
\* value does not parse as a number
to_numeric(v) ==
    CASE v.k = "num" -> v
      [] v.k = "str" -> NumOrNaN(FloatOfStr(v.s))
      [] OTHER -> NaN

fillna(v, d) == IF v.k = "nan" THEN d ELSE v

\* product of two columns; NaN propagates
Mul(a, b) == IF a.k = "nan" \/ b.k = "nan" THEN NaN ELSE Num((a.n * b.n) \div 1000)

(***************************************************************************)
(* pd.to_datetime and the calendar                                         *)
(***************************************************************************)
IsLeap(y) == (y % 4 = 0 /\ y % 100 # 0) \/ y % 400 = 0

DaysInMonth(y, m) ==
    IF m = 2 THEN (IF IsLeap(y) THEN 29 ELSE 28)
    ELSE IF m \in {4, 6, 9, 11} THEN 30 ELSE 31

\* days since 1970-01-01 of a proleptic Gregorian date: the year yy counted
\* from March, its 400-year era, and the day of the era
DayOfYear(m, d) == (153 * (IF m > 2 THEN m - 3 ELSE m + 9) + 2) \div 5 + d - 1
DayOfEra(yoe, doy) == yoe * 365 + yoe \div 4 - yoe \div 100 + doy
DaysOfEra(yy, era, doy) == era * 146097 + DayOfEra(yy - era * 400, doy) - 719468
DaysFromMarch(yy, doy) == DaysOfEra(yy, yy \div 400, doy)
DaysFromCivil(y, m, d) == DaysFromMarch(IF m <= 2 THEN y - 1 ELSE y, DayOfYear(m, d))

\* Timestamp.weekday(): Monday = 0 .. Sunday = 6 (1970-01-01 was a Thursday)
Weekday(y, m, d) == (DaysFromCivil(y, m, d) + 3) % 7

NoDate == [ok |-> FALSE, y |-> 0, m |-> 0, d |-> 0]

CalendarDate(y, m, d) ==
    IF m \in 1..12 /\ d \in 1..DaysInMonth(y, m)
    THEN [ok |-> TRUE, y |-> y, m |-> m, d |-> d]
    ELSE NoDate

IsoDate(t) ==
    IF /\ Len(t) = 10
       /\ t[5] = "-" /\ t[8] = "-"
       /\ AllDigits(SubSeq(t, 1, 4))
       /\ AllDigits(SubSeq(t, 6, 7))
       /\ AllDigits(SubSeq(t, 9, 10))
    THEN CalendarDate(DigitsVal(SubSeq(t, 1, 4)), DigitsVal(SubSeq(t, 6, 7)),
                      DigitsVal(SubSeq(t, 9, 10)))
    ELSE NoDate

\* pd.to_datetime of a 'YYYY-MM-DD' string
DateOfStr(s) == IsoDate(Strip(s))

\* pd.to_datetime(value): a string is parsed as a calendar date and raises
\* when it is none; a number is taken as nanoseconds since the epoch, which
\* for the numbers of this model is a time on 1970-01-01
to_datetime(v) ==
    CASE v.k = "str" -> DateOfStr(v.s)
      [] v.k = "num" -> [ok |-> TRUE, y |-> 1970, m |-> 1, d |-> 1]
      [] OTHER -> NoDate

(***************************************************************************)
(* np.sin / np.cos of 2*pi*x/period, in thousandths                        *)
(***************************************************************************)
\* sin(2*pi*k/48), k = 0..47: the hour circle in half-hour steps
Sin48 == <<0, 131, 259, 383, 500, 609, 707, 793, 866, 924, 966, 991,
           1000, 991, 966, 924, 866, 793, 707, 609, 500, 383, 259, 131,
           0, -131, -259, -383, -500, -609, -707, -793, -866, -924, -966, -991,
           -1000, -991, -966, -924, -866, -793, -707, -609, -500, -383, -259, -131>>
\* sin(2*pi*k/7) and cos(2*pi*k/7), k = 0..6
Sin7 == <<0, 782, 975, 434, -434, -975, -782>>
Cos7 == <<1000, 623, -223, -901, -901, -223, 623>>

\* the position of x (in thousandths) on a circle of 48 steps, for a period
\* of 12 or 24; x is resolved to half units
Step48(x, period) == (((2 * x) \div 1000) * (24 \div period)) % 48

\* sin(2*pi*x/period), x in thousandths; period is 7 (x whole), 12 or 24
SinTurn(x, period) ==
    IF period = 7 THEN Sin7[((x \div 1000) % 7) + 1]
    ELSE Sin48[Step48(x, period) + 1]

CosTurn(x, period) ==
    IF period = 7 THEN Cos7[((x \div 1000) % 7) + 1]
    ELSE Sin48[((Step48(x, period) + 12) % 48) + 1]

np_sin(v, period) == IF v.k = "nan" THEN NaN ELSE Num(SinTurn(v.n, period))
np_cos(v, period) == IF v.k = "nan" THEN NaN ELSE Num(CosTurn(v.n, period))

(***************************************************************************)
(* State                                                                   *)
(***************************************************************************)
VARIABLES
    prediction_history,       \* the list of PredictionRecords (app.py:1281)
    last_prediction,          \* the last-prediction summary (app.py:1272)
    day_model,                \* TRUE when the daily model was loaded
    day_expected_features,    \* the daily FeatureSchema
    hour_model,               \* TRUE when the hourly model was loaded
    hour_expected_features,   \* the hourly FeatureSchema
    clock,                    \* the number of datetime.now() readings so far
    response,                 \* the request handled last and its response
    appended,                 \* every record appended since start, in order
    started,                  \* the number of records in the store at start
    nreq,                     \* the number of requests handled since start
    pc,                       \* per worker thread: its position in the handler
    local                     \* per worker thread: the handler's local variables

vars == <<prediction_history, last_prediction, day_model, day_expected_features,
          hour_model, hour_expected_features, clock, response, appended,
          started, nreq, pc, local>>

models == <<day_model, day_expected_features, hour_model, hour_expected_features>>

\* a program string held in a record field that may also hold None
Lit(x) == [k |-> "lit", n |-> 0, s |-> <<x>>]

HISTORY_LIMIT == 100

DAY_UI_FIELDS == <<"dteday", "season", "holiday", "workingday", "weathersit",
                   "temp", "atemp", "hum">>

HOUR_UI_FIELDS == <<"dteday", "hr", "season", "holiday", "workingday",
                    "weathersit", "temp", "atemp", "hum">>

DAY_NUMERIC_COLS ==
    {"season", "holiday", "workingday", "weathersit", "temp", "atemp", "hum",
     "yr", "mnth", "weekday", "quarter", "is_weekend",
     "mnth_sin", "mnth_cos", "weekday_sin", "weekday_cos",
     "is_peak_season", "temp_humidity", "temp_windspeed", "weather_severity"}

HOUR_NUMERIC_COLS ==
    {"season", "holiday", "workingday", "weathersit", "temp", "atemp", "hum",
     "windspeed", "hr",
     "yr", "mnth", "weekday", "quarter", "is_weekend",
     "mnth_sin", "mnth_cos", "weekday_sin", "weekday_cos", "hr_sin", "hr_cos",
     "is_peak_season", "temp_humidity", "temp_windspeed", "weather_severity"}

Range(f) == {f[x] : x \in DOMAIN f}

RECURSIVE SelectSeq2(_, _)
\* [x for x in seq if Test(x)], for a test given as a set of accepted elements
SelectSeq2(seq, accepted) ==
    IF seq = <<>> THEN <<>>
    ELSE IF Head(seq) \in accepted
         THEN <<Head(seq)>> \o SelectSeq2(Tail(seq), accepted)
         ELSE SelectSeq2(Tail(seq), accepted)

(***************************************************************************)
(* InputContract: inputs = {k: payload.get(k) for k in FIELDS} and the     *)
(* missing-field list                                                      *)
(***************************************************************************)
ui_inputs(payload, fields) == [f \in Range(fields) |-> Get(payload, f)]

\* v is None or (isinstance(v, str) and v.strip() == "")
is_missing(v) == v.k = "none" \/ (v.k = "str" /\ Strip(v.s) = <<>>)

\* a faulty variant of missing_inputs: only the first missing field is reported
missing_first_only(inputs, fields) ==
    LET all == SelectSeq2(fields, {f \in DOMAIN inputs : is_missing(inputs[f])})
    IN  IF all = <<>> THEN <<>> ELSE <<Head(all)>>

\* [k for k, v in inputs.items() if ...], in the order of the field list
missing_inputs(inputs, fields) ==
    SelectSeq2(fields, {f \in DOMAIN inputs : is_missing(inputs[f])})

(***************************************************************************)
(* DataFrame of one row: a function from column names to values            *)
(***************************************************************************)
SetCol(df, col, v) == (col :> v) @@ df
DropCol(df, col) == [c \in DOMAIN df \ {col} |-> df[c]]

\* DateFeatureDeriver: yr, mnth, weekday and quarter of the parsed date
date_columns(df, dt) ==
    SetCol(SetCol(SetCol(SetCol(df,
        "yr", I(dt.y)),
        "mnth", I(dt.m)),
        "weekday", I(Weekday(dt.y, dt.m, dt.d))),
        "quarter", I((dt.m - 1) \div 3 + 1))

\* a faulty variant of weekend_column: only Sunday is a weekend day
weekend_column_sunday(df) ==
    SetCol(df, "is_weekend", IF df["weekday"].n > 5000 THEN I(1) ELSE I(0))

\* df['is_weekend'] = 1 if df.at[0, 'weekday'] >= 5 else 0
weekend_column(df) ==
    SetCol(df, "is_weekend", IF df["weekday"].n >= 5000 THEN I(1) ELSE I(0))

\* the cyclical encodings of month and weekday
cyclical_columns(df) ==
    SetCol(SetCol(SetCol(SetCol(df,
        "mnth_sin", np_sin(df["mnth"], 12)),
        "mnth_cos", np_cos(df["mnth"], 12)),
        "weekday_sin", np_sin(df["weekday"], 7)),
        "weekday_cos", np_cos(df["weekday"], 7))

date_features(df, dt) == cyclical_columns(weekend_column(date_columns(df, dt)))

is_peak_season(df) == IF Trunc(df["mnth"].n) \in {6, 7, 8} THEN I(1) ELSE I(0)

\* for c in numeric_cols: if c in df.columns:
\*     df[c] = pd.to_numeric(df[c], errors='coerce').fillna(0)
coerce_numeric(df, numeric_cols) ==
    [c \in DOMAIN df |-> IF c \in numeric_cols
                         THEN fillna(to_numeric(df[c]), I(0))
                         ELSE df[c]]

\* a faulty variant of reindex: the frame's columns taken by position, not by name
reindex_by_position(df, columns) ==
    LET cols == SelectSeq2(DAY_UI_FIELDS \o <<"hr", "yr", "mnth">>, DOMAIN df)
    IN  [i \in 1..Len(columns) |-> IF i <= Len(cols) THEN df[cols[i]] ELSE I(0)]

\* a faulty variant of reindex: a column the frame lacks is left out
reindex_present_only(df, columns) ==
    LET present == SelectSeq(columns, LAMBDA c : c \in DOMAIN df)
    IN  [i \in 1..Len(present) |-> df[present[i]]]

\* df.reindex(columns=expected_features, fill_value=0).values
reindex(df, columns) ==
    [i \in 1..Len(columns) |->
        IF columns[i] \in DOMAIN df THEN df[columns[i]] ELSE I(0)]

(***************************************************************************)
(* Dashboard labels                                                        *)
(***************************************************************************)
\* _calculate_weather_impact: the bare except turns a failing int() into "Medium"
calculate_weather_impact(weathersit) ==
    LET code == PyInt(weathersit)
    IN  IF ~code.ok THEN "Medium"
        ELSE IF code.n = 1 THEN "Low"
        ELSE IF code.n = 2 THEN "Medium"
        ELSE "High"

\* _calculate_peak_status(hour, demand): hour is accepted and not consulted
calculate_peak_status(hour, demand) ==
    IF demand > 400 THEN "Peak"
    ELSE IF demand > 200 THEN "Normal"
    ELSE "Off-Peak"

\* round(x, 2) of a non-negative fixed-point number
Round2(n) == ((n + 5) \div 10) * 10

(***************************************************************************)
(* Responses.  error is the message template of the jsonify({'error': ..}) *)
(* that answered, "" on success; called tells whether model.predict(X) was *)
(* invoked; df and X are the frame before reindexing and the vector; body  *)
(* is the set of field names of the JSON body.                             *)
(***************************************************************************)
NoFrame == [c \in {} |-> None]

ErrorResponse(ep, payload, status, error, missing) ==
    [endpoint |-> ep, payload |-> payload, status |-> status, error |-> error,
     missing |-> missing, prediction |-> None, called |-> FALSE,
     df |-> NoFrame, X |-> <<>>, schema |-> <<>>, recorded |-> 0,
     mode |-> "", parsed |-> NoFrame, body |-> {"error"}]

\* an error raised once the vector X is assembled
LateError(ep, payload, status, error, called, df, X, schema) ==
    [endpoint |-> ep, payload |-> payload, status |-> status, error |-> error,
     missing |-> <<>>, prediction |-> None, called |-> called,
     df |-> df, X |-> X, schema |-> schema, recorded |-> 0,
     mode |-> "", parsed |-> NoFrame, body |-> {"error"}]

Success(ep, payload, prediction, df, X, schema, recorded) ==
    [endpoint |-> ep, payload |-> payload, status |-> 200, error |-> "",
     missing |-> <<>>, prediction |-> Num(prediction), called |-> TRUE,
     df |-> df, X |-> X, schema |-> schema, recorded |-> recorded,
     mode |-> "", parsed |-> NoFrame, body |-> {"prediction"}]

\* what a handler leaves behind: its response and the stores
Outcome(resp, hist, last, clk, app) ==
    [resp |-> resp, hist |-> hist, last |-> last, clock |-> clk, app |-> app]

Unchanged(resp, hist, last, clk) == Outcome(resp, hist, last, clk, <<>>)

(***************************************************************************)
(* History store: append, then evict the oldest when over the limit        *)
(***************************************************************************)
\* a faulty variant of append_history: over the limit, the newest record is dropped
append_evict_newest(hist, entry) ==
    LET h == Append(hist, entry)
    IN  IF Len(h) > HISTORY_LIMIT THEN SubSeq(h, 1, Len(h) - 1) ELSE h

\* prediction_history.append(prediction_entry)
\* if len(prediction_history) > 100: prediction_history.pop(0)
append_history(hist, entry) ==
    LET h == Append(hist, entry)
    IN  IF Len(h) > HISTORY_LIMIT THEN Tail(h) ELSE h

\* "id": len(prediction_history) + 1
next_id(hist) == Len(hist) + 1

prediction_entry(id, pred_value, echo, weathersit_val, hour, ts) ==
    [id |-> id, predicted_demand |-> Num(Round2(pred_value)),
     weathersit |-> weathersit_val,
     weather_impact |-> Lit(calculate_weather_impact(weathersit_val)),
     peak_status |-> Lit(calculate_peak_status(hour, Trunc(pred_value))),
     timestamp |-> Num(ts), date_readable |-> Num(ts)] @@ echo

summary_of(entry) ==
    [predicted_demand |-> entry.predicted_demand,
     prediction_type |-> entry.prediction_type,
     weather_impact |-> entry.weather_impact,
     peak_status |-> entry.peak_status,
     timestamp |-> entry.timestamp]

\* the outcomes of model.predict(X): an exception, or a value
Raises == [raises |-> TRUE, y |-> 0]
Returns(y) == [raises |-> FALSE, y |-> y]

\* a faulty variant of clamped: the model's value is kept as it is
clamped_not(y) == y

\* pred_value = max(0.0, pred_value)
clamped(y) == IF y < 0 THEN 0 ELSE y

\* a faulty variant of prediction_block: the summary is set before the model answers
prediction_block_early_summary(ep, loaded, out, payload, df, X, schema, echo, weathersit_val, hour, hist, last, clk) ==
    LET pred_value == IF out.y < 0 THEN 0 ELSE out.y
        entry == prediction_entry(next_id(hist), pred_value, echo,
                                  weathersit_val, hour, clk + 1)
    IN  IF ~loaded \/ out.raises
        THEN Unchanged(LateError(ep, payload, 500, "Prediction failed: {e}",
                                 loaded, df, X, schema),
                       hist, summary_of(entry), clk)
        ELSE Outcome(Success(ep, payload, Round2(pred_value), df, X, schema, 1),
                     append_history(hist, entry), summary_of(entry), clk + 1,
                     <<entry>>)

\* a faulty variant of prediction_block: a model that was not loaded answers
prediction_block_unloaded_predicts(ep, loaded, out, payload, df, X, schema, echo, weathersit_val, hour, hist, last, clk) ==
    IF out.raises
    THEN Unchanged(LateError(ep, payload, 500, "Prediction failed: {e}",
                             TRUE, df, X, schema),
                   hist, last, clk)
    ELSE Outcome(Success(ep, payload, Round2(clamped(out.y)), df, X, schema, 1),
                 append_history(hist, prediction_entry(next_id(hist), clamped(out.y), echo,
                                                       weathersit_val, hour, clk + 1)),
                 summary_of(prediction_entry(next_id(hist), clamped(out.y), echo,
                                             weathersit_val, hour, clk + 1)),
                 clk + 1,
                 <<prediction_entry(next_id(hist), clamped(out.y), echo,
                                    weathersit_val, hour, clk + 1)>>)

\* the "# Prediction" try block of predict_day and predict_hour: predict,
\* clamp at zero, build the entry, set last_prediction, append and evict.
\* With no model loaded, model.predict raises on None.
prediction_block(ep, loaded, out, payload, df, X, schema, echo, weathersit_val, hour, hist, last, clk) ==
    IF ~loaded \/ out.raises
    THEN Unchanged(LateError(ep, payload, 500, "Prediction failed: {e}",
                             loaded, df, X, schema),
                   hist, last, clk)
    ELSE LET pred_value == clamped(out.y)
             entry == prediction_entry(next_id(hist), pred_value, echo,
                                       weathersit_val, hour, clk + 1)
         IN  Outcome(Success(ep, payload, Round2(pred_value), df, X, schema, 1),
                     append_history(hist, entry), summary_of(entry), clk + 1,
                     <<entry>>)

(***************************************************************************)
(* POST /predict/day                                                       *)
(***************************************************************************)
\* is_peak_season, temp_humidity, temp_windspeed (the constant 0) and
\* weather_severity
day_derived(df) ==
    SetCol(SetCol(SetCol(SetCol(df,
        "is_peak_season", is_peak_season(df)),
        "temp_humidity", Mul(to_numeric(df["temp"]), to_numeric(df["hum"]))),
        "temp_windspeed", I(0)),
        "weather_severity", df["weathersit"])

day_frame(inputs, dt) ==
    coerce_numeric(DropCol(day_derived(date_features(inputs, dt)), "dteday"),
                   DAY_NUMERIC_COLS)

day_echo(inputs) ==
    [prediction_type |-> Lit("Daily"), date |-> inputs["dteday"],
     season |-> inputs["season"], temp |-> inputs["temp"], hum |-> inputs["hum"],
     workingday |-> inputs["workingday"], holiday |-> inputs["holiday"]]

handle_predict_day(payload, out, hist, last, clk) ==
    LET ep == "/predict/day"
        inputs == ui_inputs(payload, DAY_UI_FIELDS)
        missing == missing_inputs(inputs, DAY_UI_FIELDS)
        dt == to_datetime(inputs["dteday"])
        df == day_frame(inputs, dt)
        X == reindex(df, day_expected_features)
    IN  IF DOMAIN payload = {}
        THEN Unchanged(ErrorResponse(ep, payload, 400, "No JSON body provided", <<>>),
                       hist, last, clk)
        ELSE IF missing # <<>>
        THEN Unchanged(ErrorResponse(ep, payload, 400, "Missing required inputs: {missing}",
                                     missing), hist, last, clk)
        ELSE IF ~dt.ok
        THEN Unchanged(ErrorResponse(ep, payload, 400, "Invalid dteday format: {e}", <<>>),
                       hist, last, clk)
        ELSE IF Len(X) # Len(day_expected_features)
        THEN Unchanged(LateError(ep, payload, 500, "Feature alignment error", FALSE,
                                 df, X, day_expected_features), hist, last, clk)
        ELSE prediction_block(ep, day_model, out, payload, df, X,
                              day_expected_features, day_echo(inputs),
                              inputs["weathersit"], None, hist, last, clk)

(***************************************************************************)
(* POST /predict/hour                                                      *)
(***************************************************************************)
\* hr_numeric = pd.to_numeric(df['hr'], errors='coerce').fillna(0).astype(int)
hr_numeric_int(df) == Num(Trunc(fillna(to_numeric(df["hr"]), I(0)).n) * 1000)

hour_cyclical(df) ==
    SetCol(SetCol(df,
        "hr_sin", np_sin(hr_numeric_int(df), 24)),
        "hr_cos", np_cos(hr_numeric_int(df), 24))

\* is_peak_season, temp_humidity, windspeed (the constant 0), temp_windspeed
\* (temp * 0) and weather_severity
hour_derived(df) ==
    SetCol(SetCol(SetCol(SetCol(SetCol(df,
        "is_peak_season", is_peak_season(df)),
        "temp_humidity", Mul(to_numeric(df["temp"]), to_numeric(df["hum"]))),
        "windspeed", I(0)),
        "temp_windspeed", Mul(to_numeric(df["temp"]), I(0))),
        "weather_severity", df["weathersit"])

hour_frame(inputs, dt) ==
    coerce_numeric(DropCol(hour_derived(hour_cyclical(date_features(inputs, dt))),
                           "dteday"),
                   HOUR_NUMERIC_COLS)

hour_echo(inputs, hr_val) ==
    [prediction_type |-> Lit("Hourly"), date |-> inputs["dteday"], hour |-> hr_val,
     season |-> inputs["season"], temp |-> inputs["temp"], hum |-> inputs["hum"],
     workingday |-> inputs["workingday"], holiday |-> inputs["holiday"]]

handle_predict_hour(payload, out, hist, last, clk) ==
    LET ep == "/predict/hour"
        inputs == ui_inputs(payload, HOUR_UI_FIELDS)
        missing == missing_inputs(inputs, HOUR_UI_FIELDS)
        hr_val == PyInt(inputs["hr"])
        dt == to_datetime(inputs["dteday"])
        df == hour_frame(inputs, dt)
        X == reindex(df, hour_expected_features)
    IN  IF DOMAIN payload = {}
        THEN Unchanged(ErrorResponse(ep, payload, 400, "No JSON body provided", <<>>),
                       hist, last, clk)
        ELSE IF missing # <<>>
        THEN Unchanged(ErrorResponse(ep, payload, 400, "Missing required inputs: {missing}",
                                     missing), hist, last, clk)
        ELSE IF ~hr_val.ok
        \* hr_val = int(inputs.get('hr', 0)) raises; the outer except answers
        THEN Unchanged(ErrorResponse(ep, payload, 500, "{e}", <<>>), hist, last, clk)
        ELSE IF ~dt.ok
        THEN Unchanged(ErrorResponse(ep, payload, 400, "Invalid dteday format: {e}", <<>>),
                       hist, last, clk)
        ELSE IF Len(X) # Len(hour_expected_features)
        THEN Unchanged(LateError(ep, payload, 500, "Feature alignment error", FALSE,
                                 df, X, hour_expected_features), hist, last, clk)
        ELSE prediction_block(ep, hour_model, out, payload, df, X,
                              hour_expected_features, hour_echo(inputs, hr_val.n),
                              inputs["weathersit"], hr_val.n, hist, last, clk)

(***************************************************************************)
(* More of str: lower(), endswith(), split(), and the characters of a      *)
(* string joined into a column name                                        *)
(***************************************************************************)
UpperChars == <<"A", "B", "C", "D", "E", "F", "G", "H", "I", "J", "K", "L", "M",
                "N", "O", "P", "Q", "R", "S", "T", "U", "V", "W", "X", "Y", "Z">>
LowerChars == <<"a", "b", "c", "d", "e", "f", "g", "h", "i", "j", "k", "l", "m",
                "n", "o", "p", "q", "r", "s", "t", "u", "v", "w", "x", "y", "z">>

LowerChar(c) == IF \E i \in 1..26 : UpperChars[i] = c
                THEN LowerChars[CHOOSE i \in 1..26 : UpperChars[i] = c]
                ELSE c

Lower(s) == [i \in 1..Len(s) |-> LowerChar(s[i])]

EndsWith(s, suffix) ==
    Len(s) >= Len(suffix) /\ SubSeq(s, Len(s) - Len(suffix) + 1, Len(s)) = suffix

RECURSIVE Join(_)
Join(s) == IF s = <<>> THEN "" ELSE Head(s) \o Join(Tail(s))

\* s.split('\n')
RECURSIVE SplitLines(_)
SplitLines(s) ==
    LET p == Find(s, "\n", 1)
    IN  IF p = 0 THEN <<s>>
        ELSE <<SubSeq(s, 1, p - 1)>> \o SplitLines(SubSeq(s, p + 1, Len(s)))

DotCsv == <<".", "c", "s", "v">>
DotTxt == <<".", "t", "x", "t">>

(***************************************************************************)
(* POST /predict/upload (CSV).  pd.read_csv is taken as done: csv.row is   *)
(* the first row, a function from the file's column names to a number, a   *)
(* text cell (Str) or an empty cell (NaN).                                 *)
(***************************************************************************)
UPLOAD_REQUIRED_COLS == <<"temp", "hum", "weathersit", "workingday">>

\* jsonify({'predicted_demand': round(pred_value, 2), 'source': 'file_upload'})
upload_body(r) == [r EXCEPT !.body = {"predicted_demand", "source"}]

handle_predict_upload(req, out, hist, last, clk) ==
    LET ep == "/predict/upload"
        name == Lower(req.filename)
        row == req.csv.row
        missing_cols == SelectSeq2(UPLOAD_REQUIRED_COLS,
                                   Range(UPLOAD_REQUIRED_COLS) \ DOMAIN row)
        workingday == PyInt(row["workingday"])
        weathersit == PyInt(row["weathersit"])
        temp == PyFloat(row["temp"])
        hum == PyFloat(row["hum"])
        windspeed == PyFloat(row["windspeed"])
        base == [dteday |-> Str(<<"2", "0", "2", "4", "-", "0", "1", "-", "0", "1">>),
                 season |-> I(1), holiday |-> I(0),
                 workingday |-> I(workingday.n), weathersit |-> I(weathersit.n),
                 temp |-> temp.v, atemp |-> temp.v, hum |-> hum.v]
        inputs == IF "windspeed" \in DOMAIN row
                  THEN SetCol(base, "windspeed", windspeed.v) ELSE base
        dt == to_datetime(inputs["dteday"])
        df == day_frame(inputs, dt)
        X == reindex(df, day_expected_features)
        fail(status, error) == Unchanged(ErrorResponse(ep, req, status, error, <<>>),
                                         hist, last, clk)
    IN  IF ~req.has_file THEN fail(400, "No file uploaded")
        ELSE IF req.filename = <<>> THEN fail(400, "No file selected")
        ELSE IF ~(EndsWith(name, DotCsv) \/ EndsWith(name, DotTxt))
        THEN fail(400, "Invalid file type. Only .csv and .txt files are supported")
        ELSE IF EndsWith(name, DotTxt)
        THEN fail(400, "TXT format supported only for structured key:value data")
        ELSE IF req.csv.empty THEN fail(400, "CSV file is empty")
        ELSE IF missing_cols # <<>>
        THEN Unchanged(ErrorResponse(ep, req, 400, "Missing required columns: {missing_cols}",
                                     missing_cols), hist, last, clk)
        ELSE IF ~(workingday.ok /\ weathersit.ok /\ temp.ok /\ hum.ok)
                \/ ("windspeed" \in DOMAIN row /\ ~windspeed.ok)
        THEN fail(400, "Error parsing CSV file: {e}")
        ELSE IF ~dt.ok THEN fail(400, "Invalid dteday format: {e}")
        ELSE IF Len(X) # Len(day_expected_features)
        THEN Unchanged(LateError(ep, req, 500, "Feature alignment error", FALSE,
                                 df, X, day_expected_features), hist, last, clk)
        ELSE IF ~day_model \/ out.raises
        THEN Unchanged(LateError(ep, req, 500, "Prediction failed: {e}", day_model,
                                 df, X, day_expected_features), hist, last, clk)
        ELSE LET pred_value == clamped(out.y)
             IN  Unchanged(upload_body(Success(ep, req, Round2(pred_value), df, X,
                                               day_expected_features, 0)),
                           hist, last, clk)

(***************************************************************************)
(* POST /upload-predict (key:value text)                                   *)
(***************************************************************************)
\* a faulty variant of key_mapping: "weather" is not a synonym
key_mapping_without_weather(key) ==
    CASE key = "hour" -> "hr"
      [] key = "humidity" -> "hum"
      [] key = "working_day" -> "workingday"
      [] key = "temperature" -> "temp"
      [] OTHER -> key

\* key_mapping.get(key, key)
key_mapping(key) ==
    CASE key = "hour" -> "hr"
      [] key = "humidity" -> "hum"
      [] key = "weather" -> "weathersit"
      [] key = "working_day" -> "workingday"
      [] key = "temperature" -> "temp"
      [] OTHER -> key

ParseOk(parsed) == [ok |-> TRUE, error |-> "", parsed |-> parsed]
ParseError(error) == [ok |-> FALSE, error |-> error, parsed |-> NoFrame]

\* a faulty variant of parse_lines: a line that is no key:value pair with a
\* numeric value is skipped
RECURSIVE parse_lines_skip_bad(_, _)
parse_lines_skip_bad(lines, parsed_inputs) ==
    IF lines = <<>> THEN ParseOk(parsed_inputs)
    ELSE LET line == Strip(Head(lines))
             p == Find(line, ":", 1)
             key == key_mapping(Join(Lower(Strip(SubSeq(line, 1, p - 1)))))
             num_value == FloatOfStr(Strip(SubSeq(line, p + 1, Len(line))))
         IN  IF line = <<>> \/ p = 0 \/ ~num_value.ok
             THEN parse_lines_skip_bad(Tail(lines), parsed_inputs)
             ELSE parse_lines_skip_bad(Tail(lines),
                                       SetCol(parsed_inputs, key, Num(num_value.n)))

\* the "for line in lines" loop: the first bad line ends the request
RECURSIVE parse_lines(_, _)
parse_lines(lines, parsed_inputs) ==
    IF lines = <<>> THEN ParseOk(parsed_inputs)
    ELSE LET line == Strip(Head(lines))
             p == Find(line, ":", 1)
             key == key_mapping(Join(Lower(Strip(SubSeq(line, 1, p - 1)))))
             value == Strip(SubSeq(line, p + 1, Len(line)))
             num_value == FloatOfStr(value)
         IN  IF line = <<>> THEN parse_lines(Tail(lines), parsed_inputs)
             ELSE IF p = 0
             THEN ParseError("Invalid TXT format. Use key:value pairs only.")
             ELSE IF ~num_value.ok
             THEN ParseError("Invalid TXT format. Values must be numeric.")
             ELSE parse_lines(Tail(lines), SetCol(parsed_inputs, key, Num(num_value.n)))

TEXT_REQUIRED_KEYS == <<"temp", "hum", "weathersit">>

FALLBACK_DATE == <<"2", "0", "2", "4", "-", "0", "6", "-", "1", "5">>

\* is_peak_season, temp_humidity and weather_severity
file_derived(df) ==
    SetCol(SetCol(SetCol(df,
        "is_peak_season", is_peak_season(df)),
        "temp_humidity", Mul(to_numeric(df["temp"]), to_numeric(df["hum"]))),
        "weather_severity", df["weathersit"])

\* hr_numeric = pd.to_numeric(df['hr'], errors='coerce').fillna(12)
hr_numeric_file(df) == fillna(to_numeric(df["hr"]), I(12))

\* the mode == 'hour' branch: hr_sin, hr_cos, windspeed, temp_windspeed
file_hour_columns(df) ==
    SetCol(SetCol(SetCol(SetCol(df,
        "hr_sin", np_sin(hr_numeric_file(df), 24)),
        "hr_cos", np_cos(hr_numeric_file(df), 24)),
        "windspeed", I(0)),
        "temp_windspeed", Mul(to_numeric(df["temp"]), I(0)))

\* a faulty variant of file_day_columns: a temp_windspeed the text supplies
\* is kept
file_day_columns_keep(df) ==
    IF "temp_windspeed" \in DOMAIN df
    THEN (IF "hr" \in DOMAIN df THEN DropCol(df, "hr") ELSE df)
    ELSE SetCol(IF "hr" \in DOMAIN df THEN DropCol(df, "hr") ELSE df,
                "temp_windspeed", I(0))

\* the day branch: hr dropped when present, temp_windspeed the constant 0
file_day_columns(df) ==
    SetCol(IF "hr" \in DOMAIN df THEN DropCol(df, "hr") ELSE df,
           "temp_windspeed", I(0))

file_mode_columns(df, mode) ==
    IF mode = "hour" THEN file_hour_columns(df) ELSE file_day_columns(df)

\* numeric_cols = [col for col in df.columns if col in expected_features]
coerce_expected(df, expected_features) ==
    coerce_numeric(df, DOMAIN df \cap Range(expected_features))

\* a faulty variant of file_frame: date columns the payload names keep the
\* payload's value
file_frame_payload_dates(parsed_inputs, mode, expected_features) ==
    coerce_expected(
        file_mode_columns(
            file_derived(parsed_inputs @@
                         date_features(parsed_inputs, to_datetime(Str(FALLBACK_DATE)))),
            mode),
        expected_features)

\* the frame of predict_from_file, from the parsed inputs and the resolved mode
file_frame(parsed_inputs, mode, expected_features) ==
    coerce_expected(
        file_mode_columns(
            file_derived(date_features(parsed_inputs, to_datetime(Str(FALLBACK_DATE)))),
            mode),
        expected_features)

\* a faulty variant of resolved_inputs: hr stays in the mapping
resolved_inputs_keep_hr(mode_param, parsed_inputs) == parsed_inputs

\* if mode == 'day' and 'hr' in parsed_inputs: parsed_inputs.pop('hr', None)
resolved_inputs(mode_param, parsed_inputs) ==
    IF mode_param = "day" /\ "hr" \in DOMAIN parsed_inputs
    THEN DropCol(parsed_inputs, "hr") ELSE parsed_inputs

\* a faulty variant of resolve_mode: auto never infers the hourly mode
resolve_mode_auto_is_day(mode_param, has_hr) ==
    IF mode_param = "auto" THEN "day" ELSE mode_param

\* mode = 'hour' if 'hr' in parsed_inputs else 'day' under auto, else the
\* requested mode
resolve_mode(mode_param, has_hr) ==
    IF mode_param = "auto"
    THEN (IF has_hr THEN "hour" ELSE "day")
    ELSE mode_param

\* required_keys = ['temp', 'hum', 'weathersit'], with 'hr' appended in the
\* hourly mode
required_keys(mode) ==
    IF mode = "hour" THEN Append(TEXT_REQUIRED_KEYS, "hr") ELSE TEXT_REQUIRED_KEYS

\* a faulty variant of missing_keys: only the first absent key is reported
missing_keys_first_only(mode, parsed_inputs) ==
    SubSeq(SelectSeq2(required_keys(mode),
                      Range(required_keys(mode)) \ DOMAIN parsed_inputs), 1, 1)

\* [k for k in required_keys if k not in parsed_inputs]
missing_keys(mode, parsed_inputs) ==
    SelectSeq2(required_keys(mode), Range(required_keys(mode)) \ DOMAIN parsed_inputs)

\* jsonify({'mode': mode, 'parsed_inputs': parsed_inputs, 'prediction': ..})
file_body(r) == [r EXCEPT !.body = {"mode", "parsed_inputs", "prediction"}]

handle_predict_from_file(req, out, hist, last, clk) ==
    LET ep == "/upload-predict"
        mode_param == IF "mode" \in DOMAIN req.form THEN req.form["mode"] ELSE "auto"
        lines == SplitLines(Strip(req.content))
        result == parse_lines(lines, NoFrame)
        has_hr == "hr" \in DOMAIN result.parsed
        mode == resolve_mode(mode_param, has_hr)
        parsed_inputs == resolved_inputs(mode_param, result.parsed)
        model == IF mode = "hour" THEN hour_model ELSE day_model
        expected_features == IF mode = "hour" THEN hour_expected_features
                             ELSE day_expected_features
        df == file_frame(parsed_inputs, mode, expected_features)
        X == reindex(df, expected_features)
        fail(status, error) == Unchanged(ErrorResponse(ep, req, status, error, <<>>),
                                         hist, last, clk)
        with_mode(r) == [r EXCEPT !.mode = mode, !.parsed = parsed_inputs]
    IN  IF ~req.has_file THEN fail(400, "No file uploaded")
        ELSE IF req.filename = <<>> THEN fail(400, "No file selected")
        ELSE IF ~EndsWith(Lower(req.filename), DotTxt)
        THEN fail(400, "Invalid file type. Only .txt files are supported")
        ELSE IF mode_param \notin {"auto", "hour", "day"}
        THEN fail(400, "Invalid mode. Must be auto, hour, or day")
        ELSE IF ~result.ok THEN fail(400, result.error)
        ELSE IF DOMAIN result.parsed = {}
        THEN fail(400, "TXT file is empty or contains no valid key:value pairs")
        ELSE IF mode = "hour" /\ ~has_hr
        THEN fail(400, "Hourly mode selected but no hour (hr) provided in file")
        ELSE IF missing_keys(mode, parsed_inputs) # <<>>
        THEN Unchanged(with_mode(ErrorResponse(ep, req, 400,
                           "Missing required features for {mode} prediction: {missing_keys}",
                           missing_keys(mode, parsed_inputs))), hist, last, clk)
        ELSE IF ~model
        THEN Unchanged(with_mode(ErrorResponse(ep, req, 500, "{mode} model not loaded",
                                               <<>>)), hist, last, clk)
        ELSE IF Len(X) # Len(expected_features)
        THEN Unchanged(with_mode(LateError(ep, req, 500, "Feature alignment error", FALSE,
                                           df, X, expected_features)), hist, last, clk)
        ELSE IF out.raises
        THEN Unchanged(with_mode(LateError(ep, req, 500, "Prediction failed: {e}", TRUE,
                                           df, X, expected_features)), hist, last, clk)
        ELSE LET pred_value == clamped(out.y)
             IN  Unchanged(file_body(with_mode(Success(ep, req, Round2(pred_value), df, X,
                                                       expected_features, 0))),
                           hist, last, clk)

(***************************************************************************)
(* GET /predictions/history                                                *)
(***************************************************************************)
Reverse(s) == [i \in 1..Len(s) |-> s[Len(s) + 1 - i]]

\* [p for p in history if p.get('prediction_type') == pred_type]
filter_type(history, pred_type) ==
    SelectSeq(history, LAMBDA p : p.prediction_type = Lit(pred_type))

\* a faulty variant of query_result: the limit is applied before the list
\* is reversed
query_result_limit_first(copy, limit, pred_type) ==
    LET filtered == IF pred_type # "" THEN filter_type(copy, pred_type) ELSE copy
    IN  IF limit.k = "num" /\ limit.n # 0 /\ limit.n > 0
        THEN Reverse(SubSeq(filtered, 1, Min(Trunc(limit.n), Len(filtered))))
        ELSE Reverse(filtered)

\* the list the query returns from its copy of the store; limit is None or
\* an integer, pred_type is "" when the parameter is absent or empty
query_result(copy, limit, pred_type) ==
    LET filtered == IF pred_type # "" THEN filter_type(copy, pred_type) ELSE copy
        reversed == Reverse(filtered)
    IN  IF limit.k = "num" /\ limit.n # 0 /\ limit.n > 0
        THEN SubSeq(reversed, 1, Min(Trunc(limit.n), Len(reversed)))
        ELSE reversed

QueryResponse(limit, pred_type, total, predictions) ==
    [endpoint |-> "/predictions/history", status |-> 200, error |-> "",
     limit |-> limit, type |-> pred_type, total |-> total,
     returned |-> Len(predictions), predictions |-> predictions,
     called |-> FALSE, recorded |-> 0]

(***************************************************************************)
(* Bounds and inputs                                                       *)
(***************************************************************************)
\* requests handled after start, one after the other, of every kind
MaxRequests == 1
\* requests handled after start, one after the other, against a full store
MaxStoreRequests == 3
\* worker threads handling one request each, concurrently
MaxThreads == 2

Date_2024_07_04 == <<"2", "0", "2", "4", "-", "0", "7", "-", "0", "4">>
Date_2024_07_05 == <<"2", "0", "2", "4", "-", "0", "7", "-", "0", "5">>
Date_2024_07_06 == <<"2", "0", "2", "4", "-", "0", "7", "-", "0", "6">>
Date_2024_06_16 == <<"2", "0", "2", "4", "-", "0", "6", "-", "1", "6">>
Date_2024_01_01 == <<"2", "0", "2", "4", "-", "0", "1", "-", "0", "1">>
Date_2024_13_45 == <<"2", "0", "2", "4", "-", "1", "3", "-", "4", "5">>

\* model.predict(X): it raises, or returns -5.25, 250.004 or 450.555
ModelOutcomes == {Raises, Returns(-5250), Returns(250004), Returns(450555)}

DayValid ==
    [dteday |-> Str(Date_2024_07_04), season |-> I(2), holiday |-> I(0),
     workingday |-> I(0), weathersit |-> I(1), temp |-> I(28), atemp |-> I(30),
     hum |-> I(55)]

\* textual values, one of them not a number, and fields outside the contract
DayTextual ==
    [dteday |-> Str(Date_2024_06_16), season |-> Str(<<"3">>), holiday |-> I(0),
     workingday |-> I(1), weathersit |-> Str(<<" ", "2">>), temp |-> Str(<<"a", "b", "c">>),
     atemp |-> Num(20500), hum |-> I(60),
     windspeed |-> I(5), hr |-> I(3), casual |-> I(7)]

DayPayloads ==
    {DayValid,
     DayTextual,
     \* a Friday and a Saturday
     [DayValid EXCEPT !.dteday = Str(Date_2024_07_05)],
     [DayValid EXCEPT !.dteday = Str(Date_2024_07_06)],
     \* a number as the date
     [DayValid EXCEPT !.dteday = I(5)],
     \* hum absent
     [f \in DOMAIN DayValid \ {"hum"} |-> DayValid[f]],
     \* several fields absent, null, empty or blank
     [dteday |-> Str(Date_2024_07_04), season |-> Str(<<>>), holiday |-> I(0),
      workingday |-> I(0), temp |-> None, atemp |-> Str(<<" ", "\t">>), hum |-> I(0)],
     \* the empty object
     NoFrame,
     \* an object with none of the contract fields
     [casual |-> I(7)],
     \* dates that are no calendar date
     [DayValid EXCEPT !.dteday = Str(Date_2024_13_45)],
     [DayTextual EXCEPT !.dteday = Str(<<"s", "o", "o", "n">>)]}

HourValid ==
    [dteday |-> Str(Date_2024_01_01), hr |-> I(9), season |-> I(1), holiday |-> I(1),
     workingday |-> I(0), weathersit |-> I(3), temp |-> Num(12500), atemp |-> I(11),
     hum |-> I(80)]

HourPayloads ==
    {HourValid,
     \* a fractional hour and a field outside the contract
     [dteday |-> Str(Date_2024_06_16), hr |-> Num(17500), season |-> I(2),
      holiday |-> I(0), workingday |-> I(0), weathersit |-> Str(<<"x">>),
      temp |-> I(30), atemp |-> I(33), hum |-> Str(<<"4", "0">>), windspeed |-> I(9)],
     \* the hour as text
     [HourValid EXCEPT !.hr = Str(<<"8">>)],
     \* an hour outside the peak hours
     [HourValid EXCEPT !.hr = I(13)],
     \* a Friday and a Saturday
     [HourValid EXCEPT !.dteday = Str(Date_2024_07_05)],
     [HourValid EXCEPT !.dteday = Str(Date_2024_07_06)],
     \* a temperature that is no number
     [HourValid EXCEPT !.temp = Str(<<"h", "o", "t">>)],
     [HourValid EXCEPT !.hr = Str(<<"a", "b", "c">>)],
     [HourValid EXCEPT !.hr = Str(<<"9", ".", "5">>)],
     [HourValid EXCEPT !.hr = Str(<<"a", "b", "c">>), !.dteday = Str(Date_2024_13_45)],
     [HourValid EXCEPT !.dteday = Str(Date_2024_13_45)],
     \* hr absent and temp blank
     [f \in DOMAIN HourValid \ {"hr"} |->
         IF f = "temp" THEN Str(<<" ">>) ELSE HourValid[f]],
     NoFrame,
     [casual |-> I(7)]}

Name_data_csv == <<"d", ".", "C", "S", "V">>
Name_data_txt == <<"d", ".", "t", "x", "t">>
Name_data_pdf == <<"d", ".", "p", "d", "f">>

CsvRow == [temp |-> Num(22500), hum |-> I(60), weathersit |-> I(2), workingday |-> I(1)]
NoCsv == [empty |-> TRUE, row |-> NoFrame]
Csv(row) == [empty |-> FALSE, row |-> row]
CsvUpload(name, csv) == [has_file |-> TRUE, filename |-> name, csv |-> csv]

UploadRequests ==
    {[has_file |-> FALSE, filename |-> <<>>, csv |-> NoCsv],
     CsvUpload(<<>>, NoCsv),
     CsvUpload(Name_data_pdf, Csv(CsvRow)),
     CsvUpload(Name_data_txt, Csv(CsvRow)),
     CsvUpload(Name_data_csv, NoCsv),
     CsvUpload(Name_data_csv, Csv(CsvRow)),
     \* a windspeed column, an empty humidity cell, a fractional weathersit
     CsvUpload(Name_data_csv,
               Csv([temp |-> I(18), hum |-> NaN, weathersit |-> Num(1700),
                    workingday |-> I(0), windspeed |-> I(12), season |-> I(4)])),
     \* a required column absent
     CsvUpload(Name_data_csv, Csv([temp |-> I(18), hum |-> I(50)])),
     \* a text cell, an empty cell where an integer is needed
     CsvUpload(Name_data_csv, Csv([CsvRow EXCEPT !.temp = Str(<<"h", "o", "t">>)])),
     CsvUpload(Name_data_csv, Csv([CsvRow EXCEPT !.workingday = NaN])),
     \* a windspeed column whose cell is empty
     CsvUpload(Name_data_csv, Csv(SetCol(CsvRow, "windspeed", NaN)))}

\* "temperature:25\nhum:60\nweather:1"
Text_day ==
    <<"t", "e", "m", "p", "e", "r", "a", "t", "u", "r", "e", ":", "2", "5", "\n",
      "h", "u", "m", ":", "6", "0", "\n",
      "w", "e", "a", "t", "h", "e", "r", ":", "1">>
\* "hour:9\ntemp:20\nhum:50\nweather:2"
Text_hour ==
    <<"h", "o", "u", "r", ":", "9", "\n", "t", "e", "m", "p", ":", "2", "0", "\n",
      "h", "u", "m", ":", "5", "0", "\n", "w", "e", "a", "t", "h", "e", "r", ":", "2">>
\* " HR : 9.5 \r\n\ntemp:20\nhum:50\nweathersit:2\nwindspeed:7\nmnth:1\ntemp:21.0\n"
Text_hour_half ==
    <<" ", "H", "R", " ", ":", " ", "9", ".", "5", " ", "\r", "\n", "\n",
      "t", "e", "m", "p", ":", "2", "0", "\n", "h", "u", "m", ":", "5", "0", "\n",
      "w", "e", "a", "t", "h", "e", "r", "s", "i", "t", ":", "2", "\n",
      "w", "i", "n", "d", "s", "p", "e", "e", "d", ":", "7", "\n",
      "m", "n", "t", "h", ":", "1", "\n",
      "t", "e", "m", "p", ":", "2", "1", ".", "0", "\n">>
\* "temp:20\nhum:50\nweather:1\nyr:0\nmnth:1\nweekday:2\nquarter:1\n
\*  is_weekend:0\nis_peak_season:0"
Text_day_dated ==
    <<"t", "e", "m", "p", ":", "2", "0", "\n", "h", "u", "m", ":", "5", "0", "\n",
      "w", "e", "a", "t", "h", "e", "r", ":", "1", "\n",
      "y", "r", ":", "0", "\n", "m", "n", "t", "h", ":", "1", "\n",
      "w", "e", "e", "k", "d", "a", "y", ":", "2", "\n",
      "q", "u", "a", "r", "t", "e", "r", ":", "1", "\n",
      "i", "s", "_", "w", "e", "e", "k", "e", "n", "d", ":", "0", "\n",
      "i", "s", "_", "p", "e", "a", "k", "_", "s", "e", "a", "s", "o", "n", ":", "0">>
\* "temp:20\nhum:50\nweather:1\nwindspeed:7\ntemp_windspeed:140"
Text_day_wind ==
    <<"t", "e", "m", "p", ":", "2", "0", "\n", "h", "u", "m", ":", "5", "0", "\n",
      "w", "e", "a", "t", "h", "e", "r", ":", "1", "\n", "w", "i", "n", "d", "s",
      "p", "e", "e", "d", ":", "7", "\n", "t", "e", "m", "p", "_", "w", "i", "n",
      "d", "s", "p", "e", "e", "d", ":", "1", "4", "0">>
\* "hr:9\ntemp:20\nhum:50\nweathersit:2\nwindspeed:7\ntemp_windspeed:140"
Text_hour_wind ==
    <<"h", "r", ":", "9", "\n", "t", "e", "m", "p", ":", "2", "0", "\n", "h", "u",
      "m", ":", "5", "0", "\n", "w", "e", "a", "t", "h", "e", "r", "s", "i", "t",
      ":", "2", "\n", "w", "i", "n", "d", "s", "p", "e", "e", "d", ":", "7", "\n",
      "t", "e", "m", "p", "_", "w", "i", "n", "d", "s", "p", "e", "e", "d", ":",
      "1", "4", "0">>
\* "temp:20"
Text_temp_only == <<"t", "e", "m", "p", ":", "2", "0">>
\* "temp:20\nhum 50"
Text_no_colon ==
    <<"t", "e", "m", "p", ":", "2", "0", "\n", "h", "u", "m", " ", "5", "0">>
\* "temp:warm\nhum:50\nweather:1"
Text_not_numeric ==
    <<"t", "e", "m", "p", ":", "w", "a", "r", "m", "\n", "h", "u", "m", ":", "5", "0", "\n",
      "w", "e", "a", "t", "h", "e", "r", ":", "1">>
\* "temp:20:5\nhum:50\nweather:1"
Text_two_colons ==
    <<"t", "e", "m", "p", ":", "2", "0", ":", "5", "\n", "h", "u", "m", ":", "5", "0", "\n",
      "w", "e", "a", "t", "h", "e", "r", ":", "1">>

\* "temp:20\nhum:50\nweather:1\nwind"
Text_extra_bad ==
    <<"t", "e", "m", "p", ":", "2", "0", "\n", "h", "u", "m", ":", "5", "0", "\n",
      "w", "e", "a", "t", "h", "e", "r", ":", "1", "\n", "w", "i", "n", "d">>

NoForm == [f \in {} |-> ""]
TextUpload(name, form, content) ==
    [has_file |-> TRUE, filename |-> name, form |-> form, content |-> content]

FileRequests ==
    {[has_file |-> FALSE, filename |-> <<>>, form |-> NoForm, content |-> <<>>],
     TextUpload(<<>>, NoForm, Text_day),
     TextUpload(Name_data_csv, NoForm, Text_day),
     TextUpload(Name_data_txt, [mode |-> "week"], Text_day),
     TextUpload(Name_data_txt, NoForm, <<" ", "\n">>)}
    \cup {TextUpload(Name_data_txt, form, content) :
            form \in {NoForm, [mode |-> "auto"], [mode |-> "hour"], [mode |-> "day"]},
            content \in {Text_day, Text_hour, Text_hour_half}}
    \cup {TextUpload(Name_data_txt, NoForm, content) :
            content \in {Text_temp_only, Text_no_colon, Text_not_numeric,
                         Text_two_colons, Text_extra_bad, Text_day_dated,
                         Text_day_wind, Text_hour_wind}}

QueryLimits == {None, I(0), I(-1), I(1), I(2)}
QueryTypes == {"", "Daily", "Hourly", "Weekly"}

(***************************************************************************)
(* Model load at startup: _load_day_model_and_features gives (None, [])    *)
(* when the file is absent or the model has no feature_names_in_           *)
(***************************************************************************)
FullDaySchema ==
    <<"season", "yr", "mnth", "holiday", "weekday", "workingday", "weathersit",
      "temp", "atemp", "hum", "windspeed", "quarter", "is_weekend", "mnth_sin",
      "mnth_cos", "weekday_sin", "weekday_cos", "is_peak_season", "temp_humidity",
      "temp_windspeed", "weather_severity">>

FullHourSchema ==
    <<"season", "yr", "mnth", "hr", "holiday", "weekday", "workingday", "weathersit",
      "temp", "atemp", "hum", "windspeed", "quarter", "is_weekend", "mnth_sin",
      "mnth_cos", "weekday_sin", "weekday_cos", "hr_sin", "hr_cos", "is_peak_season",
      "temp_humidity", "temp_windspeed", "weather_severity">>

\* schemas naming columns no pipeline produces, in an order of their own
OddDaySchema == <<"hum", "casual", "temp", "hr", "dteday", "weather_severity">>
OddHourSchema == <<"hr_sin", "registered", "hr", "temp_windspeed", "windspeed", "mnth">>

\* _load_day_model_and_features: file is "model" for a file that loads and
\* exposes feature_names_in_, "no_file" for one that is absent or does not
\* load, "no_feature_names" for a model without feature_names_in_
load_model_and_features(file, features) ==
    IF file = "no_file" THEN [model |-> FALSE, features |-> <<>>]
    ELSE IF file = "no_feature_names" THEN [model |-> FALSE, features |-> <<>>]
    ELSE [model |-> TRUE, features |-> features]

\* (the day model file, its features, the hour model file, its features)
Deployments ==
    {<<"model", FullDaySchema, "model", FullHourSchema>>,
     <<"no_file", FullDaySchema, "model", OddHourSchema>>,
     <<"model", OddDaySchema, "no_file", FullHourSchema>>,
     <<"no_feature_names", FullDaySchema, "model", FullHourSchema>>,
     <<"model", FullDaySchema, "no_feature_names", FullHourSchema>>}

(***************************************************************************)
(* Start states.  A store of n records is the one n daily predictions of   *)
(* the same request leave behind, the first at most HISTORY_LIMIT of them.  *)
(***************************************************************************)
NoPrediction ==
    [predicted_demand |-> None, prediction_type |-> None, weather_impact |-> None,
     peak_status |-> None, timestamp |-> None]

EarlierEntry(i) ==
    prediction_entry(i, 250004, day_echo(DayValid), DayValid["weathersit"], None, i)

EarlierHistory(n) == [i \in 1..n |-> EarlierEntry(i)]

\* the worker threads, and thread 0 that serves a history query
Workers == 1..MaxThreads
Threads == 0..MaxThreads

Idle == [t \in Threads |-> "idle"]
NoLocals == [t \in Threads |-> NoFrame]

InitStores(n) ==
    /\ prediction_history = EarlierHistory(n)
    /\ last_prediction = IF n = 0 THEN NoPrediction ELSE summary_of(EarlierEntry(n))
    /\ clock = n
    /\ started = n
    /\ appended = <<>>
    /\ nreq = 0
    /\ response = [endpoint |-> "", status |-> 0, error |-> "", called |-> FALSE,
                   recorded |-> 0]

InitModels(dep) ==
    /\ day_model = load_model_and_features(dep[1], dep[2]).model
    /\ day_expected_features = load_model_and_features(dep[1], dep[2]).features
    /\ hour_model = load_model_and_features(dep[3], dep[4]).model
    /\ hour_expected_features = load_model_and_features(dep[3], dep[4]).features

(***************************************************************************)
(* Requests handled one at a time: each action is a whole handler          *)
(***************************************************************************)
\* the response together with what model.predict(X) did, when it was called
NoOutput == [raises |-> FALSE, y |-> 0]
Answered(o, out) ==
    [o EXCEPT !.resp = [output |-> IF o.resp.called THEN out ELSE NoOutput] @@ o.resp]

Apply(o) ==
    /\ prediction_history' = o.hist
    /\ last_prediction' = o.last
    /\ clock' = o.clock
    /\ response' = o.resp
    /\ appended' = appended \o o.app
    /\ nreq' = nreq + 1
    /\ UNCHANGED <<models, started, pc, local>>

do_predict_day(payloads, outcomes) ==
    \E payload \in payloads, out \in outcomes :
        Apply(Answered(handle_predict_day(payload, out, prediction_history,
                                          last_prediction, clock), out))

do_predict_hour(payloads, outcomes) ==
    \E payload \in payloads, out \in outcomes :
        Apply(Answered(handle_predict_hour(payload, out, prediction_history,
                                           last_prediction, clock), out))

do_predict_upload(requests, outcomes) ==
    \E req \in requests, out \in outcomes :
        Apply(Answered(handle_predict_upload(req, out, prediction_history,
                                             last_prediction, clock), out))

do_predict_from_file(requests, outcomes) ==
    \E req \in requests, out \in outcomes :
        Apply(Answered(handle_predict_from_file(req, out, prediction_history,
                                                last_prediction, clock), out))

do_get_prediction_history(limits, types) ==
    /\ \E limit \in limits, pred_type \in types :
          response' = QueryResponse(limit, pred_type, Len(prediction_history),
                                    query_result(prediction_history, limit, pred_type))
    /\ nreq' = nreq + 1
    /\ UNCHANGED <<prediction_history, last_prediction, clock, appended, models,
                   started, pc, local>>

(***************************************************************************)
(* Spec: every kind of request, from a store that is empty or holds one    *)
(* record, under every deployment                                          *)
(***************************************************************************)
StartSizes == {0, 1}

Init ==
    /\ \E dep \in Deployments : InitModels(dep)
    /\ \E n \in StartSizes : InitStores(n)
    /\ pc = Idle
    /\ local = NoLocals

predict_day == nreq < MaxRequests /\ do_predict_day(DayPayloads, ModelOutcomes)
predict_hour == nreq < MaxRequests /\ do_predict_hour(HourPayloads, ModelOutcomes)
predict_upload == nreq < MaxRequests /\ do_predict_upload(UploadRequests, ModelOutcomes)
predict_from_file ==
    nreq < MaxRequests /\ do_predict_from_file(FileRequests, ModelOutcomes)
get_prediction_history ==
    nreq < MaxRequests /\ do_get_prediction_history(QueryLimits, QueryTypes)

Next ==
    \/ predict_day
    \/ predict_hour
    \/ predict_upload
    \/ predict_from_file
    \/ get_prediction_history

Spec == Init /\ [][Next]_vars

(***************************************************************************)
(* SpecStore: runs of requests against a store that is at, or one or two   *)
(* records below, its limit                                                *)
(***************************************************************************)
StoreStartSizes == {0, HISTORY_LIMIT - 2, HISTORY_LIMIT - 1, HISTORY_LIMIT}

StoreDayPayloads == {DayValid, [f \in DOMAIN DayValid \ {"hum"} |-> DayValid[f]]}
StoreHourPayloads == {HourValid, [HourValid EXCEPT !.hr = Str(<<"a", "b", "c">>)]}
StoreOutcomes == {Raises, Returns(450555)}

InitStore ==
    /\ InitModels(<<"model", FullDaySchema, "model", FullHourSchema>>)
    /\ \E n \in StoreStartSizes : InitStores(n)
    /\ pc = Idle
    /\ local = NoLocals

store_predict_day ==
    nreq < MaxStoreRequests /\ do_predict_day(StoreDayPayloads, StoreOutcomes)
store_predict_hour ==
    nreq < MaxStoreRequests /\ do_predict_hour(StoreHourPayloads, StoreOutcomes)
store_predict_from_file ==
    nreq < MaxStoreRequests
    /\ do_predict_from_file({TextUpload(Name_data_txt, NoForm, Text_hour)}, StoreOutcomes)
store_get_prediction_history ==
    nreq < MaxStoreRequests
    /\ do_get_prediction_history(QueryLimits, {"", "Hourly", "Daily"})

NextStore ==
    \/ store_predict_day
    \/ store_predict_hour
    \/ store_predict_from_file
    \/ store_get_prediction_history

SpecStore == InitStore /\ [][NextStore]_vars

(***************************************************************************)
(* SpecConc: the threaded server (app.run, one thread per request; nothing *)
(* in the module takes a lock).  Each worker handles one prediction        *)
(* request; between its reads and writes of prediction_history and         *)
(* last_prediction the other threads may run.  Everything before           *)
(* datetime.now() touches only the request's own data and is one step.     *)
(***************************************************************************)
ConcStartSizes == {0, HISTORY_LIMIT - 1, HISTORY_LIMIT}

ConcDayPayloads == {DayValid, [f \in DOMAIN DayValid \ {"hum"} |-> DayValid[f]]}
ConcHourPayloads == {HourValid}
ConcOutcomes == {Raises, Returns(450555)}

InitConc ==
    /\ InitModels(<<"model", FullDaySchema, "model", FullHourSchema>>)
    /\ \E n \in ConcStartSizes : InitStores(n)
    /\ pc = Idle
    /\ local = NoLocals

\* a worker runs the handler up to the prediction: an error is answered at
\* once, a prediction leaves the request at timestamp = datetime.now()
begin(t, o) ==
    /\ pc[t] = "idle"
    /\ nreq' = nreq + 1
    /\ IF o.app = <<>>
       THEN /\ pc' = [pc EXCEPT ![t] = "done"]
            /\ response' = o.resp
            /\ UNCHANGED local
       ELSE /\ pc' = [pc EXCEPT ![t] = "entry"]
            /\ local' = [local EXCEPT ![t] = [resp |-> o.resp, entry |-> o.app[1]]]
            /\ UNCHANGED response
    /\ UNCHANGED <<prediction_history, last_prediction, clock, appended, models, started>>

begin_predict_day(t) ==
    \E payload \in ConcDayPayloads, out \in ConcOutcomes :
        begin(t, handle_predict_day(payload, out, prediction_history,
                                    last_prediction, clock))

begin_predict_hour(t) ==
    \E payload \in ConcHourPayloads, out \in ConcOutcomes :
        begin(t, handle_predict_hour(payload, out, prediction_history,
                                     last_prediction, clock))

\* timestamp = datetime.now(); prediction_entry = {"id": len(prediction_history) + 1, ..}
build_entry(t) ==
    /\ pc[t] = "entry"
    /\ clock' = clock + 1
    /\ local' = [local EXCEPT ![t].entry =
                    [@ EXCEPT !.id = next_id(prediction_history),
                              !.timestamp = Num(clock + 1),
                              !.date_readable = Num(clock + 1)]]
    /\ pc' = [pc EXCEPT ![t] = "summary"]
    /\ UNCHANGED <<prediction_history, last_prediction, response, appended, models,
                   started, nreq>>

\* last_prediction = {...}
set_last_prediction(t) ==
    /\ pc[t] = "summary"
    /\ last_prediction' = summary_of(local[t].entry)
    /\ pc' = [pc EXCEPT ![t] = "append"]
    /\ UNCHANGED <<prediction_history, clock, response, appended, models, started,
                   nreq, local>>

\* prediction_history.append(prediction_entry)
append_entry(t) ==
    /\ pc[t] = "append"
    /\ prediction_history' = Append(prediction_history, local[t].entry)
    /\ appended' = Append(appended, local[t].entry)
    /\ pc' = [pc EXCEPT ![t] = "check"]
    /\ UNCHANGED <<last_prediction, clock, response, models, started, nreq, local>>

\* if len(prediction_history) > 100: ... else the response is returned
check_length(t) ==
    /\ pc[t] = "check"
    /\ IF Len(prediction_history) > HISTORY_LIMIT
       THEN pc' = [pc EXCEPT ![t] = "pop"] /\ UNCHANGED response
       ELSE pc' = [pc EXCEPT ![t] = "done"] /\ response' = local[t].resp
    /\ UNCHANGED <<prediction_history, last_prediction, clock, appended, models,
                   started, nreq, local>>

\* prediction_history.pop(0), and the response is returned
pop_oldest(t) ==
    /\ pc[t] = "pop"
    /\ prediction_history' = Tail(prediction_history)
    /\ response' = local[t].resp
    /\ pc' = [pc EXCEPT ![t] = "done"]
    /\ UNCHANGED <<last_prediction, clock, appended, models, started, nreq, local>>

\* history = prediction_history.copy(), then the filter, reverse and limit
query_copy ==
    /\ pc[0] = "idle"
    /\ \E limit \in {None}, pred_type \in {"", "Hourly"} :
          local' = [local EXCEPT ![0] =
                       [limit |-> limit, type |-> pred_type,
                        copied |-> Len(prediction_history),
                        history |-> query_result(prediction_history, limit, pred_type)]]
    /\ pc' = [pc EXCEPT ![0] = "total"]
    /\ UNCHANGED <<prediction_history, last_prediction, clock, response, appended,
                   models, started, nreq>>

\* "total": len(prediction_history), read when the response is built
query_total ==
    /\ pc[0] = "total"
    /\ response' = QueryResponse(local[0].limit, local[0].type,
                                 Len(prediction_history), local[0].history)
    /\ pc' = [pc EXCEPT ![0] = "done"]
    /\ UNCHANGED <<prediction_history, last_prediction, clock, appended, models,
                   started, nreq, local>>

conc_predict_day == \E t \in Workers : begin_predict_day(t)
conc_predict_hour == \E t \in Workers : begin_predict_hour(t)
conc_build_entry == \E t \in Workers : build_entry(t)
conc_set_last_prediction == \E t \in Workers : set_last_prediction(t)
conc_append_entry == \E t \in Workers : append_entry(t)
conc_check_length == \E t \in Workers : check_length(t)
conc_pop_oldest == \E t \in Workers : pop_oldest(t)

NextConc ==
    \/ conc_predict_day
    \/ conc_predict_hour
    \/ conc_build_entry
    \/ conc_set_last_prediction
    \/ conc_append_entry
    \/ conc_check_length
    \/ conc_pop_oldest
    \/ query_copy
    \/ query_total

SpecConc == InitConc /\ [][NextConc]_vars

(***************************************************************************)
(* Properties                                                              *)
(***************************************************************************)
PredictionEndpoints == {"/predict/day", "/predict/hour", "/predict/upload", "/upload-predict"}
JsonEndpoints == {"/predict/day", "/predict/hour"}

\* the contract fields of a JSON endpoint
ContractFields(ep) == IF ep = "/predict/hour" THEN HOUR_UI_FIELDS ELSE DAY_UI_FIELDS

\* the contract fields a body leaves absent, null or blank
MissingFields(ep, payload) ==
    {f \in Range(ContractFields(ep)) :
        \/ f \notin DOMAIN payload
        \/ payload[f].k = "none"
        \/ payload[f].k = "str" /\ \A i \in 1..Len(payload[f].s) : IsSpace(payload[f].s[i])}

\* the answered request was a JSON prediction request
JsonRequest == response.endpoint \in JsonEndpoints

\* the answered request assembled a frame and a vector
Assembled == response.endpoint \in PredictionEndpoints /\ DOMAIN response.df # {}

Newest(seq) == seq[Len(seq)]

\* C1: on every entry point, the vector handed to the model has one entry per
\* schema column, entry i being the computed value of the column named
\* schema[i] when the pipeline produced that column and 0 otherwise; computed
\* columns the schema does not name do not appear.
C1_VectorFollowsSchema ==
    Assembled =>
        /\ Len(response.X) = Len(response.schema)
        /\ \A i \in 1..Len(response.schema) :
              response.X[i] = IF response.schema[i] \in DOMAIN response.df
                              THEN response.df[response.schema[i]]
                              ELSE I(0)

\* a text upload reached the hourly model under a schema that names a column
\* the pipeline does not produce and omits columns it does produce
C1_Witness ==
    /\ Assembled
    /\ response.endpoint = "/upload-predict"
    /\ response.called
    /\ \E i \in 1..Len(response.schema) : response.schema[i] \notin DOMAIN response.df
    /\ \E c \in DOMAIN response.df : c \notin Range(response.schema)
    /\ \E i \in 1..Len(response.schema) :
          response.schema[i] \in DOMAIN response.df /\ response.X[i] # I(0)

\* C2: on /predict/day and /predict/hour, every JSON object body (one with
\* none of the contract fields included) that leaves a contract field absent,
\* null or blank is answered 400 with a message listing exactly all such
\* fields, and the model is not called.
C2_MissingFieldsListed ==
    (JsonRequest /\ MissingFields(response.endpoint, response.payload) # {}) =>
        /\ response.status = 400
        /\ response.error = "Missing required inputs: {missing}"
        /\ Range(response.missing) = MissingFields(response.endpoint, response.payload)
        /\ Len(response.missing) = Cardinality(Range(response.missing))
        /\ ~response.called

\* the records appended so far, those before the start included
Recorded == EarlierHistory(started) \o appended

\* C3: after any sequence of completed prediction requests the history holds
\* at most 100 records, the most recent min(N, 100) recorded predictions in
\* arrival order; an append over the limit evicts the single oldest record.
C3_HistoryIsRecentWindow ==
    /\ Len(prediction_history) <= HISTORY_LIMIT
    /\ prediction_history =
          SubSeq(Recorded, Len(Recorded) - Min(Len(Recorded), HISTORY_LIMIT) + 1,
                 Len(Recorded))

\* a run that filled the store and then evicted twice
C3_Witness ==
    /\ started < HISTORY_LIMIT
    /\ Len(Recorded) > HISTORY_LIMIT + 1
    /\ Len(appended) = 3

\* C4: record ids are monotonic, also past 100 predictions: a newly appended
\* record's id exceeds the id of every record before it, so no two records
\* of the history share an id.
C4_IdsStrictlyIncrease ==
    \A i, j \in 1..Len(prediction_history) :
        i < j => prediction_history[i].id < prediction_history[j].id

AllDone == \A t \in Workers : pc[t] = "done"

\* C5: with prediction requests and a history query running concurrently,
\* append-then-evict is one atomic unit: the query never observes more than
\* 100 records, no two concurrently created records share an id, and when
\* all N requests have completed the history holds min(100, previous + N).
C5_AppendEvictAtomic ==
    /\ pc[0] # "idle" => local[0].copied <= HISTORY_LIMIT
    /\ response.endpoint = "/predictions/history" => response.total <= HISTORY_LIMIT
    /\ \A i, j \in 1..Len(appended) : i # j => appended[i].id # appended[j].id
    /\ AllDone => Len(prediction_history) = Min(HISTORY_LIMIT, started + Len(appended))

NoRequestInProgress == \A t \in Workers : pc[t] \in {"idle", "done"}

\* C6: whenever no prediction request is in progress, the summary agrees with
\* the newest record of the history, or is all-null when nothing was ever
\* recorded, after any interleaving of concurrent requests.
C6_SummaryMatchesNewest ==
    NoRequestInProgress =>
        last_prediction = IF prediction_history = <<>> THEN NoPrediction
                          ELSE summary_of(Newest(prediction_history))

\* C7: on every entry point, the file uploads included, a request answered
\* with a forecast has appended one record of that forecast to the history
\* and set the summary from it.
C7_SuccessIsRecorded ==
    (response.endpoint \in PredictionEndpoints /\ response.status = 200) =>
        /\ appended # <<>>
        /\ Newest(appended).timestamp = Num(clock)
        /\ Newest(appended).predicted_demand = response.prediction
        /\ prediction_history # <<>>
        /\ Newest(prediction_history) = Newest(appended)
        /\ last_prediction = summary_of(Newest(appended))

\* C8: a prediction request answered with an error leaves the history and the
\* summary as they were, and the two change only together, by a request
\* answered with success.
C8_ErrorsLeaveStoresUnchanged ==
    [][/\ (response'.endpoint \in PredictionEndpoints /\ response'.status # 200)
             => UNCHANGED <<prediction_history, last_prediction>>
       /\ (prediction_history' # prediction_history \/ last_prediction' # last_prediction)
             => /\ response'.endpoint \in PredictionEndpoints
                /\ response'.status = 200
                /\ prediction_history' # prediction_history
                /\ last_prediction' # last_prediction]_vars

\* the model raised on an assembled vector while the store held a record
C8_Witness ==
    /\ response.endpoint \in JsonEndpoints
    /\ response.status = 500
    /\ response.called
    /\ prediction_history # <<>>
    /\ last_prediction = summary_of(Newest(prediction_history))

\* C9: on /predict/day and /predict/hour a request with every contract field
\* present whose date is no calendar date is answered 400, and the model is
\* not called.
C9_BadDateIs400 ==
    (/\ JsonRequest
     /\ DOMAIN response.payload # {}
     /\ MissingFields(response.endpoint, response.payload) = {}
     /\ ~to_datetime(response.payload["dteday"]).ok) =>
        /\ response.status = 400
        /\ ~response.called

\* C10: on /predict/hour a present, non-numeric hour with every other field
\* valid is defaulted to 0, in the hour column and its cyclical encoding,
\* and the request proceeds to prediction: no error is answered for the hour.
C10_TextHourDefaultsToZero ==
    (/\ response.endpoint = "/predict/hour"
     /\ DOMAIN response.payload # {}
     /\ MissingFields(response.endpoint, response.payload) = {}
     /\ response.payload["hr"].k = "str"
     /\ ~FloatOfStr(response.payload["hr"].s).ok
     /\ to_datetime(response.payload["dteday"]).ok) =>
        /\ response.error \in {"", "Prediction failed: {e}"}
        /\ Assembled
        /\ response.df["hr"] = I(0)
        /\ response.df["hr_sin"] = I(0)
        /\ response.df["hr_cos"] = I(1)

\* the answered request was a text upload that passed the file checks
TextRequest ==
    /\ response.endpoint = "/upload-predict"
    /\ response.payload.has_file
    /\ EndsWith(Lower(response.payload.filename), DotTxt)

\* the mode the request asked for
RequestedMode ==
    IF "mode" \in DOMAIN response.payload.form THEN response.payload.form["mode"]
    ELSE "auto"

\* the mapping parsed from the uploaded text
ParsedText == parse_lines(SplitLines(Strip(response.payload.content)), NoFrame)

\* the text parsed into at least one key:value pair
TextParsed == TextRequest /\ ParsedText.ok /\ DOMAIN ParsedText.parsed # {}

\* C11: text-file mode resolution: auto resolves to hourly exactly when the
\* parsed mapping has the hour key and to daily otherwise; explicit hour
\* without an hour key is answered 400; explicit day drops a present hour key
\* and continues in daily mode; any other mode value is answered 400.
C11_ModeResolution ==
    /\ (TextRequest /\ RequestedMode \notin {"auto", "hour", "day"}) =>
          /\ response.status = 400
          /\ response.error = "Invalid mode. Must be auto, hour, or day"
    /\ (TextParsed /\ RequestedMode = "auto") =>
          /\ response.mode = IF "hr" \in DOMAIN ParsedText.parsed THEN "hour" ELSE "day"
          /\ response.parsed = ParsedText.parsed
    /\ (TextParsed /\ RequestedMode = "hour") =>
          IF "hr" \in DOMAIN ParsedText.parsed
          THEN response.mode = "hour" /\ response.parsed = ParsedText.parsed
          ELSE /\ response.status = 400
               /\ response.error = "Hourly mode selected but no hour (hr) provided in file"
    /\ (TextParsed /\ RequestedMode = "day") =>
          /\ response.mode = "day"
          /\ response.parsed = [k \in DOMAIN ParsedText.parsed \ {"hr"} |-> ParsedText.parsed[k]]

\* "hour:9\ntemp:20\nhum:50\nweather:2" under auto resolved to the hourly
\* mode with hr = 9 in the parsed mapping, and was answered with a forecast
C11_Witness ==
    /\ TextParsed
    /\ RequestedMode = "auto"
    /\ response.payload.content = Text_hour
    /\ response.status = 200
    /\ response.mode = "hour"
    /\ response.parsed["hr"] = I(9)

\* the lines of the uploaded text
TextLines == SplitLines(Strip(response.payload.content))

ColonCount(line) == Cardinality({i \in 1..Len(line) : line[i] = ":"})

\* a non-blank line that is not one key, one colon and a numeric value
BadLine(line) ==
    /\ Strip(line) # <<>>
    /\ \/ ColonCount(line) # 1
       \/ ~FloatOfStr(SubSeq(line, Find(line, ":", 1) + 1, Len(line))).ok

\* C12: text-file parsing is all-or-nothing: a payload with a non-blank line
\* that has no colon, more than one colon or a non-numeric value, or with no
\* key:value pair at all, is answered 400 and no prediction is made for it,
\* whatever its other lines hold.
C12_ParseAllOrNothing ==
    (/\ TextRequest
     /\ \/ \E i \in 1..Len(TextLines) : BadLine(TextLines[i])
        \/ \A i \in 1..Len(TextLines) : Strip(TextLines[i]) = <<>>) =>
        /\ response.status = 400
        /\ ~response.called
        /\ response.prediction = None

\* a text with every required key and one further line without a colon was
\* refused
C12_Witness ==
    /\ TextRequest
    /\ response.payload.content = Text_extra_bad
    /\ response.status = 400
    /\ response.error = "Invalid TXT format. Use key:value pairs only."

\* the mode a parsed text resolves to, and the keys that mode requires
ResolvedMode ==
    IF RequestedMode = "auto"
    THEN (IF "hr" \in DOMAIN ParsedText.parsed THEN "hour" ELSE "day")
    ELSE RequestedMode

RequiredKeys ==
    IF ResolvedMode = "hour" THEN {"temp", "hum", "weathersit", "hr"}
    ELSE {"temp", "hum", "weathersit"}

\* the text was parsed and its mode resolved without error
ModeResolved ==
    /\ TextParsed
    /\ RequestedMode \in {"auto", "hour", "day"}
    /\ ~(RequestedMode = "hour" /\ "hr" \notin DOMAIN ParsedText.parsed)

\* C13: text-file required keys: after mode resolution the request is
\* answered 400, naming the resolved mode and exactly the missing keys,
\* whenever one of temp, hum, weathersit (and hr in hourly mode) is absent
\* from the parsed mapping; with all present the request passes the check.
C13_RequiredKeys ==
    ModeResolved =>
        IF RequiredKeys \ DOMAIN response.parsed # {}
        THEN /\ response.status = 400
             /\ response.error =
                   "Missing required features for {mode} prediction: {missing_keys}"
             /\ response.mode = ResolvedMode
             /\ Range(response.missing) = RequiredKeys \ DOMAIN response.parsed
             /\ Len(response.missing) = Cardinality(Range(response.missing))
             /\ ~response.called
        ELSE response.error #
                "Missing required features for {mode} prediction: {missing_keys}"

\* "temp:20" was answered 400 for the daily mode, naming hum and weathersit
C13_Witness ==
    /\ ModeResolved
    /\ response.payload.content = Text_temp_only
    /\ response.status = 400
    /\ response.mode = "day"
    /\ response.missing = <<"hum", "weathersit">>

\* the synonym table as the claim states it
Synonyms ==
    [hour |-> "hr", humidity |-> "hum", weather |-> "weathersit",
     working_day |-> "workingday", temperature |-> "temp"]

\* the non-blank lines of the text, and the normalised key and value of one
PairLines == SelectSeq(TextLines, LAMBDA line : Strip(line) # <<>>)
TrimmedKey(line) == Join(Lower(Strip(SubSeq(line, 1, Find(line, ":", 1) - 1))))
NormalisedKey(line) ==
    IF TrimmedKey(line) \in DOMAIN Synonyms THEN Synonyms[TrimmedKey(line)]
    ELSE TrimmedKey(line)
ValueOf(line) == Num(FloatOfStr(SubSeq(line, Find(line, ":", 1) + 1, Len(line))).n)
LastLineOf(key) ==
    CHOOSE i \in 1..Len(PairLines) :
        /\ NormalisedKey(PairLines[i]) = key
        /\ \A j \in (i + 1)..Len(PairLines) : NormalisedKey(PairLines[j]) # key

FallbackFeatures ==
    [yr |-> I(2024), mnth |-> I(6), weekday |-> I(5), quarter |-> I(2),
     is_weekend |-> I(1), is_peak_season |-> I(1),
     mnth_sin |-> Num(0), mnth_cos |-> Num(-1000),
     weekday_sin |-> Num(-975), weekday_cos |-> Num(-223)]

\* C15: on /upload-predict, in either mode and for every payload, the
\* date-derived features are those of the fixed fallback date: the frame holds
\* mnth 6, quarter 2, weekday 5, is_weekend 1, is_peak_season 1 and the
\* matching year and cyclical values, and every schema column among them has
\* that value in the vector, whatever the payload supplies under those names.
C15_FallbackDateFeatures ==
    (Assembled /\ response.endpoint = "/upload-predict") =>
        /\ \A c \in DOMAIN FallbackFeatures :
              c \in DOMAIN response.df /\ response.df[c] = FallbackFeatures[c]
        /\ \A i \in 1..Len(response.schema) :
              response.schema[i] \in DOMAIN FallbackFeatures =>
                  response.X[i] = FallbackFeatures[response.schema[i]]

\* a text naming yr, mnth, weekday, quarter, is_weekend and is_peak_season
\* was predicted with the fallback month in the vector
C15_Witness ==
    /\ Assembled
    /\ response.endpoint = "/upload-predict"
    /\ response.payload.content = Text_day_dated
    /\ response.status = 200
    /\ response.parsed["mnth"] = I(1)
    /\ \E i \in 1..Len(response.schema) :
          response.schema[i] = "mnth" /\ response.X[i] = I(6)

\* C16: on every entry point, whatever mix of numeric and non-numeric values
\* the accepted fields hold, assembly does not raise (no request is answered
\* from the handler's outermost exception clause) and every entry of the
\* vector handed to the model is a number, never a missing value.
C16_CoercionTotal ==
    response.endpoint \in PredictionEndpoints =>
        /\ response.error # "{e}"
        /\ Assembled => \A i \in 1..Len(response.X) : response.X[i].k = "num"

\* C17: on every entry point and for every model output, a negative one
\* included, the forecast of a success response is max(0, model output)
\* rounded to 2 decimals, and every predicted_demand held in the history or
\* in the summary is at least 0.
C17_ForecastClampedAtZero ==
    /\ (response.endpoint \in PredictionEndpoints /\ response.status = 200) =>
          /\ ~response.output.raises
          /\ response.prediction =
                Num(Round2(IF response.output.y > 0 THEN response.output.y ELSE 0))
    /\ \A i \in 1..Len(prediction_history) :
          /\ prediction_history[i].predicted_demand.k = "num"
          /\ prediction_history[i].predicted_demand.n >= 0
    /\ last_prediction.predicted_demand.k \in {"none", "num"}
    /\ last_prediction.predicted_demand.n >= 0

\* the model answered -5.25 to a daily request: 0 was returned and recorded
C17_Witness ==
    /\ response.endpoint = "/predict/day"
    /\ response.status = 200
    /\ response.output.y = -5250
    /\ response.prediction = I(0)
    /\ Newest(prediction_history).predicted_demand = I(0)
    /\ last_prediction.predicted_demand = I(0)

\* the variant a prediction request targets: the endpoint's own, or for a
\* text upload the mode asked for or resolved ("" when the request was
\* refused before a mode was resolved)
TargetVariant(r) ==
    IF r.endpoint \in {"/predict/day", "/predict/upload"} THEN "day"
    ELSE IF r.endpoint = "/predict/hour" THEN "hour"
    ELSE IF r.mode # "" THEN r.mode
    ELSE IF r.payload.has_file /\ "mode" \in DOMAIN r.payload.form
            /\ r.payload.form["mode"] \in {"day", "hour"}
         THEN r.payload.form["mode"]
    ELSE ""

Loaded(variant) == IF variant = "hour" THEN hour_model ELSE day_model

\* requests with nothing wrong in them, one per endpoint and mode
WellFormed(r) ==
    \/ r.endpoint = "/predict/day" /\ r.payload = DayValid
    \/ r.endpoint = "/predict/hour" /\ r.payload = HourValid
    \/ r.endpoint = "/predict/upload"
          /\ r.payload = CsvUpload(Name_data_csv, Csv(CsvRow))
    \/ r.endpoint = "/upload-predict"
          /\ r.payload \in {TextUpload(Name_data_txt, NoForm, Text_day),
                            TextUpload(Name_data_txt, NoForm, Text_hour)}

\* C18: when the model of one variant was not loaded (no file, or a model
\* without feature names), every prediction request that targets that
\* variant, on its own endpoint or by a file upload resolved to that mode, is
\* answered with an error and leaves the history and the summary as they
\* were, while a well-formed request to the other, loaded variant is answered
\* 200 unless the model itself raises.
C18_DegradedVariant ==
    [][(nreq' = nreq + 1 /\ response'.endpoint \in PredictionEndpoints) =>
          /\ (TargetVariant(response') # "" /\ ~Loaded(TargetVariant(response'))) =>
                /\ response'.status >= 400
                /\ response'.error # ""
                /\ response'.prediction = None
                /\ prediction_history' = prediction_history
                /\ last_prediction' = last_prediction
          /\ (/\ day_model # hour_model
              /\ Loaded(TargetVariant(response'))
              /\ WellFormed(response')
              /\ ~response'.output.raises) =>
                response'.status = 200]_vars

\* with no daily model loaded, a well-formed daily request was answered 500
\* and a record made earlier is still the summary
C18_Witness ==
    /\ ~day_model
    /\ hour_model
    /\ response.endpoint = "/predict/day"
    /\ response.payload = DayValid
    /\ response.status = 500
    /\ Len(prediction_history) = 1
    /\ last_prediction = summary_of(EarlierEntry(1))

\* the message templates that carry the text of the exception, str(e)
ExceptionTexts ==
    {"{e}", "Prediction failed: {e}", "Invalid dteday format: {e}",
     "Error parsing CSV file: {e}"}

\* C19: a prediction request that fails for an internal reason (the model's
\* predict raises, the vector does not align with the schema, or an
\* unexpected exception) is answered with a fixed generic message holding
\* none of the exception's own text.
C19_GenericFailure ==
    (response.endpoint \in PredictionEndpoints /\ response.status = 500) =>
        response.error \notin ExceptionTexts

\* C20: every prediction endpoint answers a successful request with status
\* 200 and a body carrying the forecast under the field "prediction", and a
\* failed request with a 4xx or 5xx status and a body carrying the field
\* "error"; no body has both fields or neither.
C20_ResponseShape ==
    response.endpoint \in PredictionEndpoints =>
        \/ /\ response.status = 200
           /\ "prediction" \in response.body
           /\ "error" \notin response.body
        \/ /\ response.status \in 400..599
           /\ "error" \in response.body
           /\ "prediction" \notin response.body

\* the entry of the assembled vector under a schema column
VectorEntry(col) ==
    response.X[CHOOSE i \in 1..Len(response.schema) : response.schema[i] = col]

Carries(col) == Assembled /\ col \in Range(response.schema)

\* C21: on every entry point, in daily and hourly mode and for every input
\* (a temperature that is no number, a text that itself supplies
\* temp_windspeed or windspeed), the temp_windspeed entry of the assembled
\* vector is 0.
C21_TempWindspeedIsZero ==
    /\ Assembled => response.df["temp_windspeed"] = I(0)
    /\ Carries("temp_windspeed") => VectorEntry("temp_windspeed") = I(0)

\* a daily text supplying temp_windspeed:140 was predicted with 0 in its place
C21_Witness ==
    /\ Carries("temp_windspeed")
    /\ response.endpoint = "/upload-predict"
    /\ response.payload.content = Text_day_wind
    /\ response.parsed["temp_windspeed"] = I(140)
    /\ response.status = 200
    /\ VectorEntry("temp_windspeed") = I(0)

\* the weekday of the dates of the requests, Monday = 0 .. Sunday = 6, as the
\* calendar gives them
CalendarWeekday ==
    [d \in {Date_2024_01_01, Date_2024_07_04, Date_2024_07_05, Date_2024_07_06,
            Date_2024_06_16} |->
        CASE d = Date_2024_01_01 -> 0
          [] d = Date_2024_07_04 -> 3
          [] d = Date_2024_07_05 -> 4
          [] d = Date_2024_07_06 -> 5
          [] d = Date_2024_06_16 -> 6]

\* C22: on every entry point the is_weekend feature is 1 exactly when the
\* weekday derived from the date (Monday = 0 .. Sunday = 6) is 5 or 6 and 0
\* for the weekdays 0..4; the date 2024-07-04 gives weekday 3 and
\* is_weekend 0.
C22_WeekendBoundary ==
    Assembled =>
        /\ response.df["weekday"] \in {I(w) : w \in 0..6}
        /\ response.df["is_weekend"] =
              IF response.df["weekday"] \in {I(5), I(6)} THEN I(1) ELSE I(0)
        /\ Carries("is_weekend") => VectorEntry("is_weekend") = response.df["is_weekend"]
        /\ (/\ JsonRequest
            /\ response.payload["dteday"].k = "str"
            /\ response.payload["dteday"].s \in DOMAIN CalendarWeekday) =>
              response.df["weekday"] =
                  I(CalendarWeekday[response.payload["dteday"].s])

\* a daily request for Saturday 2024-07-06 was assembled with weekday 5 and
\* is_weekend 1
C22_Witness ==
    /\ Carries("is_weekend")
    /\ response.endpoint = "/predict/day"
    /\ response.payload["dteday"] = Str(Date_2024_07_06)
    /\ response.df["weekday"] = I(5)
    /\ VectorEntry("is_weekend") = I(1)

\* the positions of the store whose record a type filter keeps ("" keeps all)
Matching(history, pred_type) ==
    {i \in 1..Len(history) :
        pred_type = "" \/ history[i].prediction_type = Lit(pred_type)}

\* the place of position i among the kept positions, counted from the newest
RankFromNewest(positions, i) == Cardinality({j \in positions : j >= i})

\* how many records a query returns of n kept ones
ReturnedOf(limit, n) ==
    IF limit.k = "num" /\ limit.n > 0 THEN Min(limit.n \div 1000, n) ELSE n

\* C23: the history query is a pure read: for any store, type filter and
\* limit it returns only the records of the filtered type (all when there is
\* no filter), newest first, cut to the first limit records when limit > 0
\* (uncut when the limit is absent or <= 0); returned is the number of
\* records returned, total the size of the whole store, and the store and the
\* summary are as they were.
C23_QueryIsPureRead ==
    [][(nreq' = nreq + 1 /\ response'.endpoint = "/predictions/history") =>
          /\ prediction_history' = prediction_history
          /\ last_prediction' = last_prediction
          /\ response'.status = 200
          /\ response'.total = Len(prediction_history)
          /\ response'.returned = Len(response'.predictions)
          /\ Len(response'.predictions) =
                ReturnedOf(response'.limit,
                           Cardinality(Matching(prediction_history, response'.type)))
          /\ \A i \in Matching(prediction_history, response'.type) :
                RankFromNewest(Matching(prediction_history, response'.type), i)
                        <= Len(response'.predictions) =>
                    response'.predictions[RankFromNewest(
                        Matching(prediction_history, response'.type), i)]
                      = prediction_history[i]]_vars

\* a query for one Hourly record of a store whose newest record is Daily
\* returned the older, Hourly one
C23_Witness ==
    /\ response.endpoint = "/predictions/history"
    /\ response.type = "Hourly"
    /\ response.limit = I(1)
    /\ response.returned = 1
    /\ response.total >= 2
    /\ Newest(prediction_history).prediction_type = Lit("Daily")
    /\ response.predictions[1].prediction_type = Lit("Hourly")

\* bodies that agree with a body on every contract field and differ in the
\* others: the contract fields alone, and one more field added
SameContractFields(ep, payload) ==
    {[f \in DOMAIN payload \cap Range(ContractFields(ep)) |-> payload[f]],
     SetCol(payload, "registered", I(3))}

\* the answer of a JSON endpoint to a body, from the stores as they are
Handled(ep, payload, out) ==
    IF ep = "/predict/hour"
    THEN handle_predict_hour(payload, out, prediction_history, last_prediction, clock)
    ELSE handle_predict_day(payload, out, prediction_history, last_prediction, clock)

\* C24: on /predict/day and /predict/hour fields outside the contract are
\* not taken into the request: a body that agrees with the answered one on
\* every contract field and differs in other fields gives the same vector,
\* the same response and the same record.
C24_ContractFieldsOnly ==
    [][(nreq' = nreq + 1 /\ response'.endpoint \in JsonEndpoints) =>
          \A other \in SameContractFields(response'.endpoint, response'.payload),
             out \in ModelOutcomes :
              (response'.called => out = response'.output) =>
                  /\ [Handled(response'.endpoint, other, out).resp
                         EXCEPT !.payload = response'.payload]
                       = [f \in DOMAIN response' \ {"output"} |-> response'[f]]
                  /\ Handled(response'.endpoint, other, out).hist = prediction_history'
                  /\ Handled(response'.endpoint, other, out).last = last_prediction']_vars

\* C25: on every entry point and in every mode, when the schema has a
\* windspeed column its entry in the assembled vector is 0, whatever the
\* request, the CSV row or the text holds.
C25_WindspeedIsZero ==
    Carries("windspeed") => VectorEntry("windspeed") = I(0)

\* the frame the text path assembles in hourly mode for an hour value
TextHourFrame(hr) ==
    file_frame([hr |-> hr, temp |-> I(20), hum |-> I(50), weathersit |-> I(2)],
               "hour", FullHourSchema)

\* C26: the two hourly paths derive the hour features identically: for the
\* same numeric hour, integral or fractional, /predict/hour and the text path
\* in hourly mode put the same value in the hr column and the same hr_sin and
\* hr_cos.
C26_HourPathsAgree ==
    (/\ Assembled
     /\ response.endpoint = "/predict/hour"
     /\ response.payload["hr"].k = "num") =>
        /\ response.df["hr"] = TextHourFrame(response.payload["hr"])["hr"]
        /\ response.df["hr_sin"] = TextHourFrame(response.payload["hr"])["hr_sin"]
        /\ response.df["hr_cos"] = TextHourFrame(response.payload["hr"])["hr_cos"]

\* the vector the text path hands to the daily model for the four values
TextDayVector(temp, hum, weathersit, workingday) ==
    reindex(file_frame([temp |-> temp, hum |-> hum, weathersit |-> weathersit,
                        workingday |-> workingday], "day", day_expected_features),
            day_expected_features)

\* C27: the two file paths agree: for the same temperature, humidity,
\* weather situation and working day, the CSV upload and the text upload in
\* daily mode use the same fallback date and the same defaults for season,
\* holiday and atemp, and hand the same vector to the daily model.
C27_FilePathsAgree ==
    (Assembled /\ response.endpoint = "/predict/upload"
        /\ "windspeed" \notin DOMAIN response.payload.csv.row) =>
        response.X = TextDayVector(response.df["temp"], response.df["hum"],
                                   response.df["weathersit"],
                                   response.df["workingday"])

\* C28: the feature-alignment error is unreachable: on every entry point,
\* for every input and schema (one naming columns the pipeline never
\* produces, an empty one), the vector has as many entries as the schema, no
\* request is answered 'Feature alignment error', and no shorter or longer
\* vector is passed to the model.
C28_AlignmentErrorUnreachable ==
    response.endpoint \in PredictionEndpoints =>
        /\ response.error # "Feature alignment error"
        /\ Assembled => Len(response.X) = Len(response.schema)
        /\ response.called => Len(response.X) = Len(response.schema)

\* an hourly request was predicted under a schema naming a column the
\* pipeline does not produce, with a vector of the schema's length
C28_Witness ==
    /\ Assembled
    /\ response.endpoint = "/predict/hour"
    /\ response.status = 200
    /\ response.schema = OddHourSchema
    /\ "registered" \notin DOMAIN response.df
    /\ Len(response.X) = 6

\* C29: for every text request that passes mode resolution, the resolved
\* mode is "hour" exactly when the parsed mapping holds hr; so the
\* missing-keys error never names hr, a daily success never echoes hr in
\* parsed_inputs and an hourly success always does.
C29_HourModeIffHourKey ==
    ModeResolved =>
        /\ response.mode \in {"hour", "day"}
        /\ response.mode = "hour" <=> "hr" \in DOMAIN response.parsed
        /\ "hr" \notin Range(response.missing)
        /\ (response.status = 200 /\ response.mode = "day") =>
              "hr" \notin DOMAIN response.parsed
        /\ (response.status = 200 /\ response.mode = "hour") =>
              "hr" \in DOMAIN response.parsed

\* a text with an hour line, sent with mode day, was answered with a daily
\* forecast whose parsed_inputs no longer hold hr
C29_Witness ==
    /\ ModeResolved
    /\ RequestedMode = "day"
    /\ "hr" \in DOMAIN ParsedText.parsed
    /\ response.status = 200
    /\ response.mode = "day"
    /\ "hr" \notin DOMAIN response.parsed

\* an hourly prediction as it was recorded
HourlyRecorded ==
    /\ response.endpoint = "/predict/hour"
    /\ response.status = 200
    /\ appended # <<>>

\* demand levels below, between and above the thresholds of the labels
DemandLevels == {0, 150, 200, 201, 300, 400, 401, 900}

\* C30: the peak-status label of a recorded hourly prediction is calculated
\* from both the hour and the demand: the hour (peak hours 7-9 and 16-19)
\* takes part in the decision, so for some demand level another hour than
\* the recorded one gives a different label.
C30_PeakStatusUsesHour ==
    HourlyRecorded =>
        /\ Newest(appended).peak_status =
              Lit(calculate_peak_status(Newest(appended).hour,
                                        Trunc(IF response.output.y > 0
                                              THEN response.output.y ELSE 0)))
        /\ \E other \in 0..23, demand \in DemandLevels :
              calculate_peak_status(other, demand)
                  # calculate_peak_status(Newest(appended).hour, demand)
====
